---- MODULE Spec2Model ----
(***************************************************************************)
(* Model of ironic/conductor/utils.py: the power-state controller, the     *)
(* error/recovery handlers and the conductor hand-off.                     *)
(*                                                                         *)
(* One task works on one node.  `node` is the in-memory node object of     *)
(* the task, `db` the persisted record that node.save() writes and         *)
(* node.refresh() reads.  Every function of the source is a sequence of    *)
(* steps, one per external call (driver call, save, notification,          *)
(* process_event, RPC); `pc` is the position inside the running function   *)
(* and `log` the external calls made so far by the running call.  `env`    *)
(* is what the task finds around the node: the driver the node is          *)
(* configured with and the deploy templates that match its instance        *)
(* traits.                                                                 *)
(***************************************************************************)
EXTENDS Integers, Sequences, FiniteSets, TLC

VARIABLES node, db, pc, op, task, loc, log, result, pre, calls, env

vars == <<node, db, pc, op, task, loc, log, result, pre, calls, env>>

(***************************************************************************)
(* ironic.common.states, ironic.common.faults                              *)
(***************************************************************************)
None == "None"
NOSTATE == None
POWER_ON == "power on"
POWER_OFF == "power off"
REBOOT == "rebooting"
SOFT_REBOOT == "soft rebooting"
SOFT_POWER_OFF == "soft power off"
ERROR == "error"

ACTIVE == "active"
AVAILABLE == "available"
ADOPTING == "adopting"
MANAGEABLE == "manageable"
CLEANING == "cleaning"
CLEANWAIT == "clean wait"
CLEANFAIL == "clean failed"
DEPLOYING == "deploying"
DEPLOYWAIT == "wait call-back"
DEPLOYFAIL == "deploy failed"
RESCUEWAIT == "rescue wait"
RESCUEFAIL == "rescue failed"

CLEAN_FAILURE == "clean failure"

(***************************************************************************)
(* Exceptions.  IronicExceptions are the classes derived from              *)
(* exception.IronicException; "Exception" is any other exception.          *)
(***************************************************************************)
IronicExceptions ==
    {"IronicException", "StorageError", "InvalidState", "ExclusiveLockRequired",
     "InvalidParameterValue", "PowerStateFailure"}

NoFreeConductorWorker == "NoFreeConductorWorker"

AllExceptions == IronicExceptions \cup {NoFreeConductorWorker, "Exception"}

(* What the power driver may raise, what the storage driver may raise.     *)
PowerErrors == {"IronicException", "Exception"}
StorageErrors == {"StorageError", "Exception"}

(* Requests node_power_action is called with: the five power requests and  *)
(* a value that is no power state.                                         *)
PowerRequests ==
    {POWER_ON, POWER_OFF, REBOOT, SOFT_REBOOT, SOFT_POWER_OFF, "bogus"}

(* States a driver's get_power_state reports.                              *)
ObservedStates == {POWER_ON, POWER_OFF, ERROR}

(***************************************************************************)
(* Messages are sequences of tokens: `a % b` and concatenation are         *)
(* sequence concatenation, the empty sequence is None.                     *)
(***************************************************************************)
NoError == <<>>

(* the messages callers pass to the error handlers *)
CallerMsgs == {<<"step failed">>}

(***************************************************************************)
(* Event log of the running call.                                          *)
(***************************************************************************)
(* an external call: what was called, its argument, how it ended ("ok", the *)
(* value returned, or the exception raised)                                *)
Ev(kind, what, outcome) == <<kind, what, outcome>>
Emit(e) == Append(log, e)
Count(l, e) == Cardinality({i \in 1..Len(l) : l[i] = e})
Kinds(l) == {l[i][1] : i \in 1..Len(l)}
Raised(l, kind) ==
    \E i \in 1..Len(l) : l[i][1] = kind /\ l[i][3] \in AllExceptions
CountKind(l, kind) == Cardinality({i \in 1..Len(l) : l[i][1] = kind})
Has(l, e) == \E i \in 1..Len(l) : l[i] = e
Last(l) == l[Len(l)]

NotifyStart == Ev("notify", "START", "ok")
NotifyEnd == Ev("notify", "END", "ok")
NotifyError == Ev("notify", "ERROR", "ok")
SaveEv == Ev("save", "node", "ok")

(***************************************************************************)
(* Locals of the running call; arg_msg keeps the message argument as the   *)
(* caller passed it.                                                       *)
(***************************************************************************)
NoLoc ==
    [new_state |-> None, curr_state |-> None, target_state |-> None,
     exc |-> None, power_state |-> None,
     arg_msg |-> NoError, msg |-> NoError, errmsg |-> NoError, cleanup_err |-> NoError,
     tear_down_cleaning |-> TRUE, set_fail_state |-> TRUE, clean_up |-> TRUE,
     manual_clean |-> FALSE, uuid |-> None, topic |-> None, method |-> None,
     user_steps |-> <<>>,
     driver_steps |-> <<>>, steps |-> <<>>, errors |-> <<>>,
     returned |-> <<>>, step_type |-> None, sort_step_key |-> None,
     provision_state |-> None, target_provision_state |-> None,
     operation |-> None, device |-> None, mode |-> None,
     boot_modes |-> {}]

NoTask == [shared |-> FALSE, released |-> FALSE]

(* no step-bearing driver interfaces, no matching deploy templates *)
NoEnv == [driver |-> <<>>, templates |-> <<>>]

(* task_manager.require_exclusive_lock: the decorated function runs only   *)
(* for a task that is not shared, and raises ExclusiveLockRequired else.   *)
require_exclusive_lock(t) == ~t.shared


(***************************************************************************)
(* The node object.  driver_internal_info keys that are absent from the    *)
(* mapping hold "absent"; a key set to None holds "None".  The step lists  *)
(* driver_internal_info['clean_steps'] and ['deploy_steps'] are sequences  *)
(* of step dictionaries, empty while nothing is staged.  instance_info     *)
(* holds the rescue password while a rescue is being set up.               *)
(***************************************************************************)
EmptyStep == "{}"
Absent == "absent"

ProvisionStates ==
    {ACTIVE, ADOPTING, CLEANING, CLEANWAIT, CLEANFAIL, DEPLOYING, DEPLOYWAIT,
     DEPLOYFAIL, RESCUEWAIT}

InitNodes ==
    { [uuid |-> "1be26c0b", driver |-> "ipmi",
       power_state |-> ps, target_power_state |-> NOSTATE, last_error |-> le,
       provision_state |-> prov,
       target_provision_state |-> tprov,
       maintenance |-> FALSE, maintenance_reason |-> NoError, fault |-> None,
       clean_step |-> IF prov \in {CLEANING, CLEANWAIT, CLEANFAIL}
                      THEN "erase_devices" ELSE EmptyStep,
       deploy_step |-> IF prov \in {DEPLOYING, DEPLOYWAIT, DEPLOYFAIL}
                       THEN "deploy" ELSE EmptyStep,
       driver_internal_info |->
           [clean_step_index |-> IF prov \in {CLEANING, CLEANWAIT, CLEANFAIL}
                                 THEN "0" ELSE Absent,
            cleaning_reboot |-> IF prov = CLEANWAIT THEN "True" ELSE Absent,
            deploy_step_index |-> IF prov \in {DEPLOYING, DEPLOYWAIT, DEPLOYFAIL}
                                  THEN "0" ELSE Absent,
            clean_steps |-> <<>>, deploy_steps |-> <<>>],
       instance_info |-> [rescue_password |-> Absent]] :
      ps \in {POWER_ON, POWER_OFF},
      le \in {NoError, <<"earlier failure">>},
      prov \in ProvisionStates,
      tprov \in {None, MANAGEABLE} }

Init ==
    /\ db \in InitNodes
    /\ node = db
    /\ pc = "idle"
    /\ op = None
    /\ task = NoTask
    /\ loc = NoLoc
    /\ log = <<>>
    /\ result = None
    /\ pre = db
    /\ calls = 0
    /\ env = NoEnv

(* the number of error-handler calls in one behaviour of HandlerSpec *)
MaxCalls == 1

(* A call starts on a fresh task: the node object is loaded from storage.  *)
Begin(name, shared, l, first) ==
    /\ pc = "idle"
    /\ op' = name
    /\ task' = [shared |-> shared, released |-> FALSE]
    /\ loc' = l
    /\ node' = db
    /\ pre' = db
    /\ log' = <<>>
    /\ result' = "running"
    /\ pc' = first
    /\ UNCHANGED <<db, env>>

(* An error handler is called; a behaviour holds at most MaxCalls of them. *)
BeginHandler(name, shared, l, first) ==
    /\ calls < MaxCalls
    /\ calls' = calls + 1
    /\ Begin(name, shared, l, first)

(* The call is over; the task and its node object are dropped.             *)
Finish ==
    /\ pc = "done"
    /\ pc' = "idle"
    /\ op' = None
    /\ task' = NoTask
    /\ loc' = NoLoc
    /\ node' = db
    /\ pre' = db
    /\ log' = <<>>
    /\ result' = None
    /\ UNCHANGED <<db, calls, env>>

(***************************************************************************)
(* node_power_action and _can_skip_state_change                            *)
(***************************************************************************)
calculate_target_state(new_state) ==
    IF new_state \in {POWER_ON, REBOOT, SOFT_REBOOT} THEN POWER_ON
    ELSE IF new_state \in {POWER_OFF, SOFT_POWER_OFF} THEN POWER_OFF
    ELSE None

(* requests for which _can_skip_state_change reads the power state *)
SkippableRequests == {POWER_ON, POWER_OFF, SOFT_POWER_OFF}

AlreadyThere_SoftOffNotSkipped(curr_state, new_state) ==
    \/ curr_state = POWER_ON /\ new_state = POWER_ON
    \/ curr_state = POWER_OFF /\ new_state = POWER_OFF

(* the request is already satisfied by the observed state *)
AlreadyThere(curr_state, new_state) ==
    \/ curr_state = POWER_ON /\ new_state = POWER_ON
    \/ curr_state = POWER_OFF /\ new_state \in {POWER_OFF, SOFT_POWER_OFF}

(* _not_going_to_change: the field updates before node.save() *)
NotGoingToChange(n, curr_state) ==
    [n EXCEPT !.last_error = NoError,
              !.power_state = curr_state,
              !.target_power_state = NOSTATE]

SkipCheckFailed_ErrorNotRecorded(n, new_state, e) ==
    [n EXCEPT !.target_power_state = NOSTATE]

(* get_power_state raised: the field updates before node.save() *)
SkipCheckFailed(n, new_state, e) ==
    [n EXCEPT !.last_error =
                  <<"Failed to change power state to", new_state, "Error", e>>,
              !.target_power_state = NOSTATE]

StartsNewOperation_Always(n, target_state) == TRUE

(* whether a new operation starts (target_power_state differs) *)
StartsNewOperation(n, target_state) == n.target_power_state # target_state

(* the field updates of a newly started operation *)
StartOperation(n, target_state) ==
    [n EXCEPT !.target_power_state = target_state, !.last_error = NoError]

NeedsAttach_AnyProvisionState(n, target_state) == target_state = POWER_ON

(* whether volumes are attached before the power call *)
NeedsAttach(n, target_state) ==
    target_state = POWER_ON /\ n.provision_state = ACTIVE

PowerCall_NeverReboot(new_state, outcome) ==
    Ev("set_power_state", new_state, outcome)

(* the driver power call that is issued for a request *)
PowerCall(new_state, outcome) ==
    IF new_state # REBOOT THEN Ev("set_power_state", new_state, outcome)
    ELSE Ev("reboot", "", outcome)

PowerActionFailed_KeepsTarget(n, target_state, new_state, e) ==
    [n EXCEPT !.last_error =
                  <<"Failed to change power state to", target_state,
                    "by", new_state, "Error", e>>]

(* the except branch of the power action: the field updates before save *)
PowerActionFailed(n, target_state, new_state, e) ==
    [n EXCEPT !.target_power_state = NOSTATE,
              !.last_error =
                  <<"Failed to change power state to", target_state,
                    "by", new_state, "Error", e>>]

PowerActionSucceeded_KeepsTarget(n, target_state) ==
    [n EXCEPT !.power_state = target_state]

(* the else branch of the power action: the field updates before save *)
PowerActionSucceeded(n, target_state) ==
    [n EXCEPT !.power_state = target_state, !.target_power_state = NOSTATE]

(* whether volumes are detached after the power call *)
NeedsDetach(n, target_state) ==
    target_state = POWER_OFF /\ n.provision_state = ACTIVE

(* exceptions of detach_volumes that node_power_action swallows *)
DetachSwallowed(e) == e = "StorageError"

(* Operations that call node_power_action as their first statement.        *)
RescueOps == {"rescuing_error_handler", "cleanup_rescuewait_timeout"}

(* node_power_action is over with outcome res ("returned" or the exception *)
(* raised): the top-level call is done, a nested one resumes its caller.   *)
NpaExit(res, l) ==
    IF op \in RescueOps
    THEN /\ pc' = IF res = "returned" THEN "resc_clean_up" ELSE "resc_except"
         /\ loc' = [l EXCEPT !.exc = res]
         /\ UNCHANGED result
    ELSE /\ pc' = "done"
         /\ result' = res
         /\ loc' = l

node_power_action(new_state, shared) ==
    /\ Begin("node_power_action", shared,
             [NoLoc EXCEPT !.new_state = new_state], "npa_enter")
    /\ UNCHANGED calls

(* @task_manager.require_exclusive_lock *)
NpaEnter ==
    /\ pc = "npa_enter"
    /\ IF require_exclusive_lock(task)
       THEN /\ pc' = "npa_start"
            /\ UNCHANGED <<loc, result>>
       ELSE NpaExit("ExclusiveLockRequired", loc)
    /\ UNCHANGED <<node, db, op, task, log, pre, calls, env>>

(* lines 285-287: the START notification *)
NpaNotifyStart ==
    /\ pc = "npa_start"
    /\ log' = Emit(NotifyStart)
    /\ pc' = "npa_skip"
    /\ UNCHANGED <<node, db, op, task, loc, result, pre, calls, env>>

(* _can_skip_state_change up to the state read, lines 210-240 and 251-264 *)
NpaCanSkip ==
    /\ pc = "npa_skip"
    /\ IF loc.new_state \notin SkippableRequests
       THEN /\ pc' = "npa_target"
            /\ UNCHANGED <<loc, log>>
       ELSE \/ \E e \in PowerErrors :
                  /\ log' = Emit(Ev("get_power_state", "", e))
                  /\ loc' = [loc EXCEPT !.exc = e]
                  /\ pc' = "npa_skip_err_save"
            \/ \E curr \in ObservedStates :
                  /\ log' = Emit(Ev("get_power_state", "", curr))
                  /\ loc' = [loc EXCEPT !.curr_state = curr]
                  /\ pc' = IF AlreadyThere(curr, loc.new_state)
                           THEN "npa_skip_save" ELSE "npa_target"
    /\ UNCHANGED <<node, db, op, task, result, pre, calls, env>>

(* lines 242-246 *)
NpaSkipErrSave ==
    /\ pc = "npa_skip_err_save"
    /\ node' = SkipCheckFailed(node, loc.new_state, loc.exc)
    /\ db' = node'
    /\ log' = Emit(SaveEv)
    /\ pc' = "npa_skip_err_notify"
    /\ UNCHANGED <<op, task, loc, result, pre, calls, env>>

(* lines 247-249, then save_and_reraise_exception re-raises *)
NpaSkipErrNotify ==
    /\ pc = "npa_skip_err_notify"
    /\ log' = Emit(NotifyError)
    /\ NpaExit(loc.exc, loc)
    /\ UNCHANGED <<node, db, op, task, pre, calls, env>>

(* lines 226-230 *)
NpaSkipSave ==
    /\ pc = "npa_skip_save"
    /\ node' = NotGoingToChange(node, loc.curr_state)
    /\ db' = node'
    /\ log' = Emit(SaveEv)
    /\ pc' = "npa_skip_notify"
    /\ UNCHANGED <<op, task, loc, result, pre, calls, env>>

(* lines 226-230 and the return at line 291, without the notification *)
NpaSkipNotify_Silent ==
    /\ pc = "npa_skip_notify"
    /\ NpaExit("returned", loc)
    /\ UNCHANGED <<node, db, op, task, log, pre, calls, env>>

(* lines 231-233, then node_power_action returns at line 291 *)
NpaSkipNotify ==
    /\ pc = "npa_skip_notify"
    /\ log' = Emit(NotifyEnd)
    /\ NpaExit("returned", loc)
    /\ UNCHANGED <<node, db, op, task, pre, calls, env>>

(* lines 292-300 *)
NpaSetTarget ==
    /\ pc = "npa_target"
    /\ LET target_state == calculate_target_state(loc.new_state) IN
       /\ loc' = [loc EXCEPT !.target_state = target_state]
       /\ IF StartsNewOperation(node, target_state)
          THEN /\ node' = StartOperation(node, target_state)
               /\ db' = node'
               /\ log' = Emit(SaveEv)
          ELSE UNCHANGED <<node, db, log>>
    /\ pc' = "npa_attach"
    /\ UNCHANGED <<op, task, result, pre, calls, env>>

NpaAttach_IgnoresFailure ==
    /\ pc = "npa_attach"
    /\ IF NeedsAttach(node, loc.target_state)
       THEN \E out \in {"ok"} \cup StorageErrors :
               log' = Emit(Ev("attach_volumes", "", out))
       ELSE UNCHANGED log
    /\ pc' = "npa_power"
    /\ UNCHANGED <<node, db, op, task, loc, result, pre, calls, env>>

(* lines 304-306 *)
NpaAttach ==
    /\ pc = "npa_attach"
    /\ IF NeedsAttach(node, loc.target_state)
       THEN \/ /\ log' = Emit(Ev("attach_volumes", "", "ok"))
               /\ pc' = "npa_power"
               /\ UNCHANGED loc
            \/ \E e \in StorageErrors :
                  /\ log' = Emit(Ev("attach_volumes", "", e))
                  /\ loc' = [loc EXCEPT !.exc = e]
                  /\ pc' = "npa_err_save"
       ELSE /\ pc' = "npa_power"
            /\ UNCHANGED <<loc, log>>
    /\ UNCHANGED <<node, db, op, task, result, pre, calls, env>>

(* lines 308-314 *)
NpaPower ==
    /\ pc = "npa_power"
    /\ \/ /\ log' = Emit(PowerCall(loc.new_state, "ok"))
          /\ pc' = "npa_ok_save"
          /\ UNCHANGED loc
       \/ \E e \in PowerErrors :
             /\ log' = Emit(PowerCall(loc.new_state, e))
             /\ loc' = [loc EXCEPT !.exc = e]
             /\ pc' = "npa_err_save"
    /\ UNCHANGED <<node, db, op, task, result, pre, calls, env>>

(* lines 317-324 *)
NpaErrSave ==
    /\ pc = "npa_err_save"
    /\ node' = PowerActionFailed(node, loc.target_state, loc.new_state, loc.exc)
    /\ db' = node'
    /\ log' = Emit(SaveEv)
    /\ pc' = "npa_err_notify"
    /\ UNCHANGED <<op, task, loc, result, pre, calls, env>>

NpaErrNotify_Swallows ==
    /\ pc = "npa_err_notify"
    /\ log' = Emit(NotifyError)
    /\ NpaExit("returned", loc)
    /\ UNCHANGED <<node, db, op, task, pre, calls, env>>

(* lines 325-327, then save_and_reraise_exception re-raises *)
NpaErrNotify ==
    /\ pc = "npa_err_notify"
    /\ log' = Emit(NotifyError)
    /\ NpaExit(loc.exc, loc)
    /\ UNCHANGED <<node, db, op, task, pre, calls, env>>

NpaOkSave_NotSaved ==
    /\ pc = "npa_ok_save"
    /\ node' = PowerActionSucceeded(node, loc.target_state)
    /\ pc' = "npa_ok_notify"
    /\ UNCHANGED <<db, log, op, task, loc, result, pre, calls, env>>

(* lines 330-332 *)
NpaOkSave ==
    /\ pc = "npa_ok_save"
    /\ node' = PowerActionSucceeded(node, loc.target_state)
    /\ db' = node'
    /\ log' = Emit(SaveEv)
    /\ pc' = "npa_ok_notify"
    /\ UNCHANGED <<op, task, loc, result, pre, calls, env>>

(* lines 333-344 *)
NpaOkNotify ==
    /\ pc = "npa_ok_notify"
    /\ log' = Emit(NotifyEnd)
    /\ IF NeedsDetach(node, loc.target_state)
       THEN /\ pc' = "npa_detach"
            /\ UNCHANGED <<loc, result>>
       ELSE NpaExit("returned", loc)
    /\ UNCHANGED <<node, db, op, task, pre, calls, env>>

(* lines 345-350: only StorageError is caught *)
NpaDetach ==
    /\ pc = "npa_detach"
    /\ \/ /\ log' = Emit(Ev("detach_volumes", "", "ok"))
          /\ NpaExit("returned", loc)
       \/ \E e \in StorageErrors :
             /\ log' = Emit(Ev("detach_volumes", "", e))
             /\ IF DetachSwallowed(e)
                THEN NpaExit("returned", loc)
                ELSE NpaExit(e, loc)
    /\ UNCHANGED <<node, db, op, task, pre, calls, env>>

NpaPcs ==
    {"npa_enter", "npa_start", "npa_skip", "npa_skip_err_save",
     "npa_skip_err_notify", "npa_skip_save", "npa_skip_notify", "npa_target",
     "npa_attach", "npa_power", "npa_err_save", "npa_err_notify",
     "npa_ok_save", "npa_ok_notify", "npa_detach"}

(***************************************************************************)
(* power_state_error_handler                                               *)
(***************************************************************************)
(* the field updates for a NoFreeConductorWorker error, lines 623-625 *)
PowerStateRestored(n, power_state) ==
    [n EXCEPT !.power_state = power_state,
              !.target_power_state = NOSTATE,
              !.last_error = <<"No free conductor workers available">>]

(* The spawn-error hook of a power request whose worker could not start.   *)
power_state_error_handler(e, power_state) ==
    /\ Begin("power_state_error_handler", FALSE,
             [NoLoc EXCEPT !.exc = e, !.power_state = power_state], "pseh")
    /\ UNCHANGED calls

PowerStateErrorHandler ==
    /\ pc = "pseh"
    /\ IF loc.exc = NoFreeConductorWorker
       THEN /\ node' = PowerStateRestored(node, loc.power_state)
            /\ db' = node'
            /\ log' = Emit(SaveEv)
       ELSE UNCHANGED <<node, db, log>>
    /\ pc' = "done"
    /\ result' = "returned"
    /\ UNCHANGED <<op, task, loc, pre, calls, env>>


(***************************************************************************)
(* task.process_event('fail'): the provision-state machine of the task     *)
(* manager.  A state with no 'fail' transition raises InvalidState;        *)
(* otherwise the node moves to the failure state and is saved.             *)
(***************************************************************************)
HasFailTransition(prov) ==
    prov \in {CLEANING, CLEANWAIT, DEPLOYING, DEPLOYWAIT, RESCUEWAIT}

FailState(prov) ==
    IF prov \in {CLEANING, CLEANWAIT} THEN CLEANFAIL
    ELSE IF prov \in {DEPLOYING, DEPLOYWAIT} THEN DEPLOYFAIL
    ELSE RESCUEFAIL

ProcessEventOutcome(n) ==
    IF HasFailTransition(n.provision_state) THEN "ok" ELSE "InvalidState"

ProcessEventFail(n) ==
    IF HasFailTransition(n.provision_state)
    THEN [n EXCEPT !.provision_state = FailState(n.provision_state)]
    ELSE n

(***************************************************************************)
(* cleaning_error_handler, cleanup_cleanwait_timeout                       *)
(***************************************************************************)
DeployErrors == {"IronicException", "Exception"}

(* line 422 *)
TearDownFailedMsg(msg) == msg \o <<"Also failed to tear down cleaning">>

ClearCleanCursor_AnyState(n) ==
    [n EXCEPT !.clean_step = EmptyStep,
              !.driver_internal_info.clean_step_index = Absent,
              !.driver_internal_info.cleaning_reboot = Absent]

(* lines 424-434: the step cursor is cleared in the cleaning states *)
ClearCleanCursor(n) ==
    IF n.provision_state \in {CLEANING, CLEANWAIT, CLEANFAIL}
    THEN [n EXCEPT !.clean_step = EmptyStep,
                   !.driver_internal_info.clean_step_index = Absent,
                   !.driver_internal_info.cleaning_reboot = Absent]
    ELSE n

CleaningFailed_ReasonUnset(n, msg) ==
    [n EXCEPT !.last_error = msg,
              !.maintenance = TRUE,
              !.fault = CLEAN_FAILURE]

(* lines 438-441 *)
CleaningFailed(n, msg) ==
    [n EXCEPT !.last_error = msg,
              !.maintenance = TRUE,
              !.maintenance_reason = msg,
              !.fault = CLEAN_FAILURE]

CleaningSetsFailState_IgnoresCleanFail(n, set_fail_state) == set_fail_state

(* line 444 *)
CleaningSetsFailState(n, set_fail_state) ==
    set_fail_state /\ n.provision_state # CLEANFAIL

(* line 445 *)
CleaningFailTarget(manual_clean) ==
    IF manual_clean THEN MANAGEABLE ELSE None

cleaning_error_handler(msg, tear_down_cleaning, set_fail_state, shared) ==
    BeginHandler("cleaning_error_handler", shared,
          [NoLoc EXCEPT !.arg_msg = msg, !.msg = msg,
                        !.tear_down_cleaning = tear_down_cleaning,
                        !.set_fail_state = set_fail_state],
          "ceh_tear_down")

(* lines 400-407 *)
CleanWaitTimeoutMsg(n) ==
    <<"Timeout reached while cleaning the node", "Failed on step",
      n.clean_step>>

cleanup_cleanwait_timeout(shared) ==
    BeginHandler("cleanup_cleanwait_timeout", shared,
          [NoLoc EXCEPT !.arg_msg = CleanWaitTimeoutMsg(db),
                        !.msg = CleanWaitTimeoutMsg(db),
                        !.tear_down_cleaning = TRUE,
                        !.set_fail_state = FALSE],
          "ceh_tear_down")

(* lines 415-422 *)
CehTearDown ==
    /\ pc = "ceh_tear_down"
    /\ IF loc.tear_down_cleaning
       THEN \/ /\ log' = Emit(Ev("tear_down_cleaning", "", "ok"))
               /\ UNCHANGED loc
            \/ \E e \in DeployErrors :
                  /\ log' = Emit(Ev("tear_down_cleaning", "", e))
                  /\ loc' = [loc EXCEPT !.msg = TearDownFailedMsg(loc.msg)]
       ELSE UNCHANGED <<loc, log>>
    /\ pc' = "ceh_save"
    /\ UNCHANGED <<node, db, op, task, result, pre, calls, env>>

(* lines 424-442 *)
CehSave ==
    /\ pc = "ceh_save"
    /\ loc' = [loc EXCEPT
                 !.manual_clean = (node.target_provision_state = MANAGEABLE)]
    /\ node' = CleaningFailed(ClearCleanCursor(node), loc.msg)
    /\ db' = node'
    /\ log' = Emit(SaveEv)
    /\ pc' = "ceh_fail"
    /\ UNCHANGED <<op, task, result, pre, calls, env>>

(* lines 444-446 *)
CehFail ==
    /\ pc = "ceh_fail"
    /\ IF CleaningSetsFailState(node, loc.set_fail_state)
       THEN /\ log' = Emit(Ev("process_event", CleaningFailTarget(loc.manual_clean),
                              ProcessEventOutcome(node)))
            /\ node' = ProcessEventFail(node)
            /\ db' = node'
            /\ result' = IF ProcessEventOutcome(node) = "ok"
                         THEN "returned" ELSE "InvalidState"
       ELSE /\ result' = "returned"
            /\ UNCHANGED <<node, db, log>>
    /\ pc' = "done"
    /\ UNCHANGED <<op, task, loc, pre, calls, env>>

(***************************************************************************)
(* deploying_error_handler, cleanup_after_timeout                          *)
(***************************************************************************)
(* lines 472-478 *)
CleanupErr(errmsg, e) ==
    errmsg \o
    (IF e \in IronicExceptions
     THEN <<"Also failed to clean up due to", e>>
     ELSE <<"An unhandled exception was encountered while aborting">>)

(* lines 481-490: the step cursor is cleared in the deploying states *)
ClearDeployCursor(n) ==
    IF n.provision_state \in {DEPLOYING, DEPLOYWAIT, DEPLOYFAIL}
    THEN [n EXCEPT !.deploy_step = EmptyStep,
                   !.driver_internal_info.deploy_step_index = Absent]
    ELSE n

WithCleanupErr_Always(n, cleanup_err) ==
    [n EXCEPT !.last_error = cleanup_err]

(* lines 492-493 *)
WithCleanupErr(n, cleanup_err) ==
    IF cleanup_err # NoError THEN [n EXCEPT !.last_error = cleanup_err] ELSE n

deploying_error_handler(errmsg, clean_up, shared) ==
    BeginHandler("deploying_error_handler", shared,
          [NoLoc EXCEPT !.arg_msg = errmsg, !.errmsg = errmsg,
                        !.clean_up = clean_up],
          "deh_save")

(* lines 359-361 *)
DeployTimeoutMsg == <<"Timeout reached while waiting for callback for node">>

cleanup_after_timeout(shared) ==
    BeginHandler("cleanup_after_timeout", shared,
          [NoLoc EXCEPT !.arg_msg = DeployTimeoutMsg,
                        !.errmsg = DeployTimeoutMsg, !.clean_up = TRUE],
          "cat_enter")

(* @task_manager.require_exclusive_lock on cleanup_after_timeout *)
CatEnter ==
    /\ pc = "cat_enter"
    /\ IF require_exclusive_lock(task)
       THEN pc' = "deh_save" /\ UNCHANGED result
       ELSE pc' = "done" /\ result' = "ExclusiveLockRequired"
    /\ UNCHANGED <<node, db, op, task, loc, log, pre, calls, env>>

DehSave_NotSaved ==
    /\ pc = "deh_save"
    /\ node' = [node EXCEPT !.last_error = loc.errmsg]
    /\ pc' = "deh_clean_up"
    /\ UNCHANGED <<db, log, op, task, loc, result, pre, calls, env>>

(* lines 461-462 *)
DehSave ==
    /\ pc = "deh_save"
    /\ node' = [node EXCEPT !.last_error = loc.errmsg]
    /\ db' = node'
    /\ log' = Emit(SaveEv)
    /\ pc' = "deh_clean_up"
    /\ UNCHANGED <<op, task, loc, result, pre, calls, env>>

(* lines 464-478 *)
DehCleanUp ==
    /\ pc = "deh_clean_up"
    /\ IF loc.clean_up
       THEN \/ /\ log' = Emit(Ev("clean_up", "deploy", "ok"))
               /\ UNCHANGED loc
            \/ \E e \in DeployErrors :
                  /\ log' = Emit(Ev("clean_up", "deploy", e))
                  /\ loc' = [loc EXCEPT
                               !.cleanup_err = CleanupErr(loc.errmsg, e)]
       ELSE UNCHANGED <<loc, log>>
    /\ pc' = "deh_refresh"
    /\ UNCHANGED <<node, db, op, task, result, pre, calls, env>>

(* Another writer persists a provision-state change of the node while the  *)
(* handler's cleanup runs, before the handler reloads the node.            *)
ConcurrentProvisionUpdate ==
    /\ pc = "deh_refresh"
    /\ db.provision_state = DEPLOYWAIT
    /\ db' = [db EXCEPT !.provision_state = DEPLOYING]
    /\ UNCHANGED <<node, pc, op, task, loc, log, result, pre, calls, env>>

DehRefresh_KeepsStale ==
    /\ pc = "deh_refresh"
    /\ log' = Emit(Ev("refresh", "node", "ok"))
    /\ pc' = "deh_save_again"
    /\ UNCHANGED <<node, db, op, task, loc, result, pre, calls, env>>

(* line 480: node.refresh() *)
DehRefresh ==
    /\ pc = "deh_refresh"
    /\ node' = db
    /\ log' = Emit(Ev("refresh", "node", "ok"))
    /\ pc' = "deh_save_again"
    /\ UNCHANGED <<db, op, task, loc, result, pre, calls, env>>

(* lines 481-494 *)
DehSaveAgain ==
    /\ pc = "deh_save_again"
    /\ node' = WithCleanupErr(ClearDeployCursor(node), loc.cleanup_err)
    /\ db' = node'
    /\ log' = Emit(SaveEv)
    /\ pc' = "deh_fail"
    /\ UNCHANGED <<op, task, loc, result, pre, calls, env>>

(* line 497 *)
DehFail ==
    /\ pc = "deh_fail"
    /\ log' = Emit(Ev("process_event", None, ProcessEventOutcome(node)))
    /\ node' = ProcessEventFail(node)
    /\ db' = node'
    /\ result' = IF ProcessEventOutcome(node) = "ok"
                 THEN "returned" ELSE "InvalidState"
    /\ pc' = "done"
    /\ UNCHANGED <<op, task, loc, pre, calls, env>>

(***************************************************************************)
(* rescuing_error_handler, cleanup_rescuewait_timeout                      *)
(***************************************************************************)
RescueErrors == {"IronicException", "Exception"}

(* lines 535-544: last_error after the power-off or the cleanup raised *)
RescueCleanupFailedMsg(e) ==
    IF e \in IronicExceptions
    THEN <<"Rescue operation was unsuccessful, clean up failed for node", e>>
    ELSE <<"Rescue failed, but an unhandled exception was encountered while aborting", e>>

(* line 532: the handler starts with node_power_action(task, POWER_OFF) *)
rescuing_error_handler(msg, set_fail_state, shared) ==
    BeginHandler("rescuing_error_handler", shared,
          [NoLoc EXCEPT !.arg_msg = msg, !.msg = msg,
                        !.set_fail_state = set_fail_state,
                        !.new_state = POWER_OFF],
          "npa_enter")

(* lines 566-570 *)
RescueTimeoutMsg ==
    <<"Timeout reached while waiting for rescue ramdisk callback for node">>

cleanup_rescuewait_timeout_SetsFailState(shared) ==
    BeginHandler("cleanup_rescuewait_timeout", shared,
          [NoLoc EXCEPT !.arg_msg = RescueTimeoutMsg,
                        !.msg = RescueTimeoutMsg, !.set_fail_state = TRUE,
                        !.new_state = POWER_OFF],
          "crt_enter")

cleanup_rescuewait_timeout(shared) ==
    BeginHandler("cleanup_rescuewait_timeout", shared,
          [NoLoc EXCEPT !.arg_msg = RescueTimeoutMsg,
                        !.msg = RescueTimeoutMsg, !.set_fail_state = FALSE,
                        !.new_state = POWER_OFF],
          "crt_enter")

(* @task_manager.require_exclusive_lock on cleanup_rescuewait_timeout *)
CrtEnter ==
    /\ pc = "crt_enter"
    /\ IF require_exclusive_lock(task)
       THEN pc' = "npa_enter" /\ UNCHANGED result
       ELSE pc' = "done" /\ result' = "ExclusiveLockRequired"
    /\ UNCHANGED <<node, db, op, task, loc, log, pre, calls, env>>

(* lines 533-534 *)
RescCleanUp ==
    /\ pc = "resc_clean_up"
    /\ \/ /\ log' = Emit(Ev("clean_up", "rescue", "ok"))
          /\ node' = [node EXCEPT !.last_error = loc.msg]
          /\ pc' = "resc_save"
          /\ UNCHANGED loc
       \/ \E e \in RescueErrors :
             /\ log' = Emit(Ev("clean_up", "rescue", e))
             /\ loc' = [loc EXCEPT !.exc = e]
             /\ pc' = "resc_except"
             /\ UNCHANGED node
    /\ UNCHANGED <<db, op, task, result, pre, calls, env>>

(* lines 535-546 *)
RescExcept ==
    /\ pc = "resc_except"
    /\ node' = [node EXCEPT !.last_error = RescueCleanupFailedMsg(loc.exc)]
    /\ pc' = "resc_save"
    /\ UNCHANGED <<db, op, task, loc, log, result, pre, calls, env>>

(* lines 547-548 *)
RescSave ==
    /\ pc = "resc_save"
    /\ db' = node
    /\ log' = Emit(SaveEv)
    /\ pc' = "resc_fail"
    /\ UNCHANGED <<node, op, task, loc, result, pre, calls, env>>

RescFail_PropagatesInvalidState ==
    /\ pc = "resc_fail"
    /\ IF loc.set_fail_state
       THEN /\ log' = Emit(Ev("process_event", None, ProcessEventOutcome(node)))
            /\ node' = ProcessEventFail(node)
            /\ db' = node'
            /\ result' = IF ProcessEventOutcome(node) = "ok"
                         THEN "returned" ELSE "InvalidState"
       ELSE /\ result' = "returned"
            /\ UNCHANGED <<node, db, log>>
    /\ pc' = "done"
    /\ UNCHANGED <<op, task, loc, pre, calls, env>>

(* lines 550-557: InvalidState is logged, not raised *)
RescFail ==
    /\ pc = "resc_fail"
    /\ IF loc.set_fail_state
       THEN /\ log' = Emit(Ev("process_event", None, ProcessEventOutcome(node)))
            /\ node' = ProcessEventFail(node)
            /\ db' = node'
       ELSE UNCHANGED <<node, db, log>>
    /\ result' = "returned"
    /\ pc' = "done"
    /\ UNCHANGED <<op, task, loc, pre, calls, env>>

(***************************************************************************)
(* abort_on_conductor_take_over                                            *)
(***************************************************************************)
TakeOverMsg == <<"Operation was aborted due to conductor take over">>

abort_on_conductor_take_over(shared) ==
    BeginHandler("abort_on_conductor_take_over", shared,
          [NoLoc EXCEPT !.arg_msg = TakeOverMsg,
                        !.msg = TakeOverMsg, !.tear_down_cleaning = TRUE,
                        !.set_fail_state = FALSE],
          "abort_enter")

AbortOnTakeOver_AlwaysCleaningFailure ==
    /\ pc = "abort_enter"
    /\ IF ~require_exclusive_lock(task)
       THEN /\ pc' = "done"
            /\ result' = "ExclusiveLockRequired"
       ELSE /\ pc' = "ceh_tear_down"
            /\ UNCHANGED result
    /\ UNCHANGED <<node, db, log, op, task, loc, pre, calls, env>>

(* lines 500-515 *)
AbortOnTakeOver ==
    /\ pc = "abort_enter"
    /\ IF ~require_exclusive_lock(task)
       THEN /\ pc' = "done"
            /\ result' = "ExclusiveLockRequired"
            /\ UNCHANGED <<node, db, log>>
       ELSE IF node.provision_state = CLEANFAIL
       THEN /\ pc' = "ceh_tear_down"
            /\ UNCHANGED <<node, db, log, result>>
       ELSE /\ node' = [node EXCEPT !.last_error = loc.msg]
            /\ db' = node'
            /\ log' = Emit(SaveEv)
            /\ pc' = "done"
            /\ result' = "returned"
    /\ UNCHANGED <<op, task, loc, pre, calls, env>>

(***************************************************************************)
(* _notify_conductor_resume_operation                                      *)
(***************************************************************************)
ResumeMethods == {"continue_node_clean", "continue_node_deploy"}

(* rpcapi.ConductorAPI.get_topic_for: the topic of the conductor that is  *)
(* responsible for the node's driver                                       *)
get_topic_for(n) == IF n.driver = "ipmi" THEN "conductor.host-a"
                    ELSE "conductor.host-b"

(* what the RPC may raise *)
RpcErrors == {"Exception"}

NcroAfter_RpcBeforeRelease(p) ==
    IF p = "ncro_read" THEN "ncro_topic"
    ELSE IF p = "ncro_topic" THEN "ncro_rpc"
    ELSE IF p = "ncro_rpc" THEN "ncro_release"
    ELSE "done"

(* the order of the statements at lines 1227-1235 *)
NcroAfter(p) ==
    IF p = "ncro_read" THEN "ncro_topic"
    ELSE IF p = "ncro_topic" THEN "ncro_release"
    ELSE IF p = "ncro_release" THEN "ncro_rpc"
    ELSE "done"

(* the statement after p runs next; after the last one the call returns *)
NcroGo(p) ==
    /\ pc' = NcroAfter(p)
    /\ result' = IF NcroAfter(p) = "done" THEN "returned" ELSE result

notify_conductor_resume_operation(method, shared) ==
    BeginHandler("notify_conductor_resume_operation", shared,
                 [NoLoc EXCEPT !.method = method], "ncro_read")

(* lines 1227-1230: task.node.uuid is read; task.node is gone once the     *)
(* task released its resources                                             *)
NcroReadUuid ==
    /\ pc = "ncro_read"
    /\ IF task.released
       THEN /\ log' = Emit(Ev("node", "uuid", "AttributeError"))
            /\ pc' = "done"
            /\ result' = "Exception"
            /\ UNCHANGED loc
       ELSE /\ log' = Emit(Ev("node", "uuid", node.uuid))
            /\ loc' = [loc EXCEPT !.uuid = node.uuid]
            /\ NcroGo("ncro_read")
    /\ UNCHANGED <<node, db, op, task, pre, calls, env>>

(* lines 1231-1232 *)
NcroGetTopic ==
    /\ pc = "ncro_topic"
    /\ IF task.released
       THEN /\ log' = Emit(Ev("node", "get_topic_for", "AttributeError"))
            /\ pc' = "done"
            /\ result' = "Exception"
            /\ UNCHANGED loc
       ELSE /\ log' = Emit(Ev("node", "get_topic_for", get_topic_for(node)))
            /\ loc' = [loc EXCEPT !.topic = get_topic_for(node)]
            /\ NcroGo("ncro_topic")
    /\ UNCHANGED <<node, db, op, task, pre, calls, env>>

(* line 1234 *)
NcroRelease ==
    /\ pc = "ncro_release"
    /\ task' = [task EXCEPT !.released = TRUE]
    /\ log' = Emit(Ev("release_resources", "", "ok"))
    /\ NcroGo("ncro_release")
    /\ UNCHANGED <<node, db, op, loc, pre, calls, env>>

(* line 1235: the event holds the method, the uuid and the topic passed *)
NcroRpc ==
    /\ pc = "ncro_rpc"
    /\ log' = Emit(Ev(loc.method, loc.uuid, loc.topic))
    /\ \/ NcroGo("ncro_rpc")
       \/ \E e \in RpcErrors : pc' = "done" /\ result' = e
    /\ UNCHANGED <<node, db, op, task, loc, pre, calls, env>>

HandlerNext ==
    \/ \E msg \in CallerMsgs, tear_down_cleaning \in BOOLEAN,
          set_fail_state \in BOOLEAN, shared \in BOOLEAN :
          cleaning_error_handler(msg, tear_down_cleaning, set_fail_state, shared)
    \/ \E shared \in BOOLEAN : cleanup_cleanwait_timeout(shared)
    \/ CehTearDown
    \/ CehSave
    \/ CehFail
    \/ \E errmsg \in CallerMsgs, clean_up \in BOOLEAN, shared \in BOOLEAN :
          deploying_error_handler(errmsg, clean_up, shared)
    \/ \E shared \in BOOLEAN : cleanup_after_timeout(shared)
    \/ CatEnter
    \/ DehSave
    \/ DehCleanUp
    \/ ConcurrentProvisionUpdate
    \/ DehRefresh
    \/ DehSaveAgain
    \/ DehFail
    \/ \E msg \in CallerMsgs, set_fail_state \in BOOLEAN, shared \in BOOLEAN :
          rescuing_error_handler(msg, set_fail_state, shared)
    \/ \E shared \in BOOLEAN : cleanup_rescuewait_timeout(shared)
    \/ CrtEnter
    \/ RescCleanUp
    \/ RescExcept
    \/ RescSave
    \/ RescFail
    \/ \E shared \in BOOLEAN : abort_on_conductor_take_over(shared)
    \/ AbortOnTakeOver
    \/ \E method \in ResumeMethods, shared \in BOOLEAN :
          notify_conductor_resume_operation(method, shared)
    \/ NcroReadUuid
    \/ NcroGetTopic
    \/ NcroRelease
    \/ NcroRpc

PowerNext ==
    \/ \E new_state \in PowerRequests, shared \in BOOLEAN :
          node_power_action(new_state, shared)
    \/ NpaEnter
    \/ NpaNotifyStart
    \/ NpaCanSkip
    \/ NpaSkipErrSave
    \/ NpaSkipErrNotify
    \/ NpaSkipSave
    \/ NpaSkipNotify
    \/ NpaSetTarget
    \/ NpaAttach
    \/ NpaPower
    \/ NpaErrSave
    \/ NpaErrNotify
    \/ NpaOkSave
    \/ NpaOkNotify
    \/ NpaDetach
    \/ \E e \in {NoFreeConductorWorker, "Exception"},
          power_state \in {POWER_ON, POWER_OFF} :
          power_state_error_handler(e, power_state)
    \/ PowerStateErrorHandler
    \/ Finish

Next == PowerNext

(* the power controller: any sequence of power requests on one node *)
Spec == Init /\ [][Next]_vars

(* the error handlers, with the node_power_action steps they run *)
HandlerSpecNext ==
    \/ HandlerNext
    \/ NpaEnter
    \/ NpaNotifyStart
    \/ NpaCanSkip
    \/ NpaSkipErrSave
    \/ NpaSkipErrNotify
    \/ NpaSkipSave
    \/ NpaSkipNotify
    \/ NpaSetTarget
    \/ NpaAttach
    \/ NpaPower
    \/ NpaErrSave
    \/ NpaErrNotify
    \/ NpaOkSave
    \/ NpaOkNotify
    \/ NpaDetach
    \/ Finish

HandlerSpec == Init /\ [][HandlerSpecNext]_vars


(***************************************************************************)
(* Clean and deploy steps.  A step is a dictionary: a record whose domain  *)
(* is the set of keys present.  {} is the empty function <<>>.             *)
(***************************************************************************)
(* dict.get(key, default) *)
Get(d, key, default) == IF key \in DOMAIN d THEN d[key] ELSE default

(* d[key] = value, on a copy *)
Put(d, key, value) ==
    [k \in DOMAIN d \cup {key} |-> IF k = key THEN value ELSE d[k]]

CLEANING_INTERFACE_PRIORITY ==
    [power |-> 5, management |-> 4, deploy |-> 3, bios |-> 2, raid |-> 1]

DEPLOYING_INTERFACE_PRIORITY ==
    [power |-> 5, management |-> 4, deploy |-> 3, bios |-> 2, raid |-> 1]

(* the iteration order of the two interface tables *)
InterfaceOrder == <<"power", "management", "deploy", "bios", "raid">>

_clean_step_key(step) ==
    <<step.priority, CLEANING_INTERFACE_PRIORITY[step.interface]>>

_deploy_step_key(step) ==
    <<step.priority, DEPLOYING_INTERFACE_PRIORITY[step.interface]>>

(* sort_step_key is passed by name *)
SortKeyOf(sort_step_key, step) ==
    IF sort_step_key = "_clean_step_key" THEN _clean_step_key(step)
    ELSE _deploy_step_key(step)

(* the order of Python tuples of two integers *)
KeyLess(a, b) == a[1] < b[1] \/ (a[1] = b[1] /\ a[2] < b[2])

(* sorted(..., key=..., reverse=True): the keys are computed once, the     *)
(* <<key, item>> pairs are sorted by key alone, highest first, and items   *)
(* with equal keys keep their input order.  e is the item that follows     *)
(* every item of s in the input.                                           *)
RECURSIVE InsertKeyed_BeforeEqual(_, _)
InsertKeyed_BeforeEqual(e, s) ==
    IF s = <<>> THEN <<e>>
    ELSE IF ~KeyLess(e[1], Head(s)[1]) THEN <<e>> \o s
    ELSE <<Head(s)>> \o InsertKeyed_BeforeEqual(e, Tail(s))

RECURSIVE InsertKeyed(_, _)
InsertKeyed(e, s) ==
    IF s = <<>> THEN <<e>>
    ELSE IF KeyLess(Head(s)[1], e[1]) THEN <<e>> \o s
    ELSE <<Head(s)>> \o InsertKeyed(e, Tail(s))

RECURSIVE SortKeyed(_)
SortKeyed(s) ==
    IF s = <<>> THEN <<>>
    ELSE InsertKeyed(s[Len(s)], SortKeyed(SubSeq(s, 1, Len(s) - 1)))

_sorted_steps(steps, sort_step_key) ==
    LET keyed == [i \in 1..Len(steps) |->
                     <<SortKeyOf(sort_step_key, steps[i]), steps[i]>>]
        sorted == SortKeyed(keyed)
    IN [i \in 1..Len(steps) |-> sorted[i][2]]

(* task.driver: for each get method, the steps each interface returns; an  *)
(* interface the driver does not have (None) is absent from the record.    *)
(* x['priority'] of the enabled filter raises KeyError for a step with no  *)
(* priority.                                                               *)
RECURSIVE InterfaceSteps(_, _, _)
InterfaceSteps(driver, get_method, i) ==
    IF i > Len(InterfaceOrder) THEN <<>>
    ELSE (IF InterfaceOrder[i] \in DOMAIN driver[get_method]
          THEN driver[get_method][InterfaceOrder[i]] ELSE <<>>)
         \o InterfaceSteps(driver, get_method, i + 1)

GetStepsRaises(driver, get_method, enabled) ==
    /\ enabled
    /\ \E i \in 1..Len(InterfaceSteps(driver, get_method, 1)) :
          "priority" \notin DOMAIN InterfaceSteps(driver, get_method, 1)[i]

StepEnabled(x) == x.priority > 0

_get_steps(driver, get_method, enabled, sort_step_key) ==
    LET all == InterfaceSteps(driver, get_method, 1)
        steps == IF enabled THEN SelectSeq(all, StepEnabled) ELSE all
    IN IF sort_step_key # None THEN _sorted_steps(steps, sort_step_key)
       ELSE steps

_get_cleaning_steps_IgnoresEnabled(driver, enabled, sort) ==
    _get_steps(driver, "get_clean_steps", FALSE,
               IF sort THEN "_clean_step_key" ELSE None)

_get_cleaning_steps(driver, enabled, sort) ==
    _get_steps(driver, "get_clean_steps", enabled,
               IF sort THEN "_clean_step_key" ELSE None)

_get_deployment_steps_IgnoresEnabled(driver, enabled, sort) ==
    _get_steps(driver, "get_deploy_steps", FALSE,
               IF sort THEN "_deploy_step_key" ELSE None)

_get_deployment_steps(driver, enabled, sort) ==
    _get_steps(driver, "get_deploy_steps", enabled,
               IF sort THEN "_deploy_step_key" ELSE None)


(***************************************************************************)
(* Validation of user steps.  A validation error is a record of what the   *)
(* message is built from: its kind, the step type, the step as it was when *)
(* the message was formatted, and the argument names it lists.             *)
(***************************************************************************)
StepError(kind, step_type, step, detail) ==
    [kind |-> kind, type |-> step_type, step |-> step, detail |-> detail]

CountErrors(errors, kind) ==
    Cardinality({i \in 1..Len(errors) : errors[i].kind = kind})

(* one error for every step of a repeated pair *)
_validate_deploy_steps_unique_PerStep(user_steps) ==
    LET pair(i) == <<user_steps[i].interface, user_steps[i].step>>
        count(i) == Cardinality({j \in 1..Len(user_steps) : pair(j) = pair(i)})
        repeated(i) == count(i) > 1
        idx == SelectSeq([i \in 1..Len(user_steps) |-> i], repeated)
    IN [k \in 1..Len(idx) |->
           [kind |-> "duplicate", type |-> "deploy",
            step |-> [interface |-> pair(idx[k])[1], step |-> pair(idx[k])[2]],
            detail |-> {}]]

(* collections.Counter over (interface, step): one error for each pair     *)
(* counted more than once, in the order of first occurrence.               *)
_validate_deploy_steps_unique(user_steps) ==
    LET pair(i) == <<user_steps[i].interface, user_steps[i].step>>
        count(i) == Cardinality({j \in 1..Len(user_steps) : pair(j) = pair(i)})
        first(i) == \A j \in 1..(i - 1) : pair(j) # pair(i)
        repeated(i) == first(i) /\ count(i) > 1
        idx == SelectSeq([i \in 1..Len(user_steps) |-> i], repeated)
    IN [k \in 1..Len(idx) |->
           StepError("duplicate", "deploy",
                     [interface |-> pair(idx[k])[1], step |-> pair(idx[k])[2]],
                     {})]

(* driver_step.get('argsinfo') or {} *)
ArgsInfo(driver_step) == Get(driver_step, "argsinfo", <<>>)

(* user_step.get('args') or {} *)
UserArgs(user_step) == Get(user_step, "args", <<>>)

InvalidArgs(user_step, driver_step) ==
    DOMAIN UserArgs(user_step) \ DOMAIN ArgsInfo(driver_step)

MissingArgs(user_step, driver_step) ==
    {a \in DOMAIN ArgsInfo(driver_step) :
        /\ Get(ArgsInfo(driver_step)[a], "required", FALSE)
        /\ a \notin DOMAIN UserArgs(user_step)}

is_core(driver_step) ==
    driver_step.interface = "deploy" /\ driver_step.step = "deploy"

(* lines 961-970, with the priority test left out *)
CoreStepErrors_AtAnyPriority(user_step, driver_step, step_type) ==
    IF step_type # "clean" /\ is_core(driver_step)
    THEN <<StepError("core step", step_type, user_step, {})>>
    ELSE <<>>

(* lines 961-970: a core deploy step can only be disabled *)
CoreStepErrors(user_step, driver_step, step_type) ==
    IF step_type # "clean" /\ user_step.priority > 0 /\ is_core(driver_step)
    THEN <<StepError("core step", step_type, user_step, {})>>
    ELSE <<>>

UserStepErrors_RequiredAtAnyPriority(user_step, driver_step, step_type) ==
    (IF InvalidArgs(user_step, driver_step) # {}
     THEN <<StepError("invalid arguments", step_type, user_step,
                      InvalidArgs(user_step, driver_step))>>
     ELSE <<>>)
    \o
    (IF MissingArgs(user_step, driver_step) # {}
     THEN <<StepError("missing arguments", step_type, user_step,
                      MissingArgs(user_step, driver_step))>>
     ELSE <<>>)
    \o CoreStepErrors(user_step, driver_step, step_type)

(* the errors _validate_user_step returns *)
UserStepErrors(user_step, driver_step, step_type) ==
    (IF InvalidArgs(user_step, driver_step) # {}
     THEN <<StepError("invalid arguments", step_type, user_step,
                      InvalidArgs(user_step, driver_step))>>
     ELSE <<>>)
    \o
    (IF /\ (step_type = "clean" \/ user_step.priority > 0)
        /\ MissingArgs(user_step, driver_step) # {}
     THEN <<StepError("missing arguments", step_type, user_step,
                      MissingArgs(user_step, driver_step))>>
     ELSE <<>>)
    \o CoreStepErrors(user_step, driver_step, step_type)

(* the user step dictionary after _validate_user_step, lines 957-960 *)
UserStepAfter_KeepsCallerValues(user_step, driver_step, step_type) ==
    IF step_type = "clean"
    THEN Put(Put(user_step, "abortable", Get(user_step, "abortable", FALSE)),
             "priority", Get(user_step, "priority", 0))
    ELSE user_step

UserStepAfter(user_step, driver_step, step_type) ==
    IF step_type = "clean"
    THEN Put(Put(user_step, "abortable", Get(driver_step, "abortable", FALSE)),
             "priority", Get(driver_step, "priority", 0))
    ELSE user_step

_validate_user_step(user_step, driver_step, step_type) ==
    [errors |-> UserStepErrors(user_step, driver_step, step_type),
     user_step |-> UserStepAfter(user_step, driver_step, step_type)]

step_id(step) == <<step.step, step.interface>>

(* {step_id(s): s for s in driver_steps}: the last step with an id wins *)
HasDriverStep(driver_steps, id) ==
    \E i \in 1..Len(driver_steps) : step_id(driver_steps[i]) = id

DriverStepOf(driver_steps, id) ==
    LET last == CHOOSE i \in 1..Len(driver_steps) :
                   /\ step_id(driver_steps[i]) = id
                   /\ \A j \in (i + 1)..Len(driver_steps) :
                         step_id(driver_steps[j]) # id
    IN driver_steps[last]

(* one round of the loop of lines 1029-1041 *)
ValidateOne(user_step, driver_steps, step_type) ==
    IF ~HasDriverStep(driver_steps, step_id(user_step))
    THEN [errors |-> <<StepError("unsupported", step_type, user_step, {})>>,
          user_step |-> user_step]
    ELSE _validate_user_step(user_step,
                             DriverStepOf(driver_steps, step_id(user_step)),
                             step_type)

RECURSIVE ValidateLoop_StopsAtFirstError(_, _, _)
ValidateLoop_StopsAtFirstError(user_steps, driver_steps, step_type) ==
    IF user_steps = <<>> THEN [errors |-> <<>>, user_steps |-> <<>>]
    ELSE LET n == Len(user_steps)
             before == ValidateLoop_StopsAtFirstError(
                           SubSeq(user_steps, 1, n - 1), driver_steps, step_type)
             this == ValidateOne(user_steps[n], driver_steps, step_type)
         IN IF before.errors # <<>>
            THEN [errors |-> before.errors,
                  user_steps |-> Append(before.user_steps, user_steps[n])]
            ELSE [errors |-> this.errors,
                  user_steps |-> Append(before.user_steps, this.user_step)]

(* the loop: the errors collected and the user steps as the loop left them *)
RECURSIVE ValidateLoop(_, _, _)
ValidateLoop(user_steps, driver_steps, step_type) ==
    IF user_steps = <<>> THEN [errors |-> <<>>, user_steps |-> <<>>]
    ELSE LET n == Len(user_steps)
             before == ValidateLoop(SubSeq(user_steps, 1, n - 1),
                                    driver_steps, step_type)
             this == ValidateOne(user_steps[n], driver_steps, step_type)
         IN [errors |-> before.errors \o this.errors,
             user_steps |-> Append(before.user_steps, this.user_step)]

(* _validate_user_steps: errors is what InvalidParameterValue carries; it  *)
(* is raised iff errors is not empty.  user_steps are the caller's         *)
(* dictionaries after the call, whether it raised or returned.             *)
_validate_user_steps(user_steps, driver_steps, step_type) ==
    LET loop == ValidateLoop(user_steps, driver_steps, step_type)
    IN [errors |-> loop.errors \o
                   (IF step_type = "deploy"
                    THEN _validate_deploy_steps_unique(loop.user_steps)
                    ELSE <<>>),
        user_steps |-> loop.user_steps]

_validate_user_clean_steps(driver, user_steps) ==
    _validate_user_steps(user_steps, _get_cleaning_steps(driver, FALSE, FALSE),
                         "clean")

_validate_user_deploy_steps(driver, user_steps) ==
    _validate_user_steps(user_steps, _get_deployment_steps(driver, FALSE, FALSE),
                         "deploy")


(***************************************************************************)
(* Deploy templates and the merged list of deploy steps.                   *)
(***************************************************************************)
step_fields == {"interface", "step", "args", "priority"}

RECURSIVE _get_steps_from_deployment_templates(_)
_get_steps_from_deployment_templates(templates) ==
    IF templates = <<>> THEN <<>>
    ELSE [i \in 1..Len(Head(templates)) |->
             [key \in step_fields |-> Head(templates)[i][key]]]
         \o _get_steps_from_deployment_templates(Tail(templates))

user_step_keys(user_steps) ==
    {<<user_steps[i].interface, user_steps[i].step>> : i \in 1..Len(user_steps)}

(* lines 827-835 on the driver's enabled steps and the template steps *)
MergeSteps_KeepsOverridden(driver_steps, user_steps) ==
    _sorted_steps(driver_steps \o SelectSeq(user_steps, StepEnabled),
                  "_deploy_step_key")

MergeSteps(driver_steps, user_steps) ==
    LET NotOverridden(s) ==
            <<s.interface, s.step>> \notin user_step_keys(user_steps)
    IN _sorted_steps(SelectSeq(driver_steps, NotOverridden)
                     \o SelectSeq(user_steps, StepEnabled),
                     "_deploy_step_key")

_get_all_deployment_steps(driver, templates) ==
    MergeSteps(_get_deployment_steps(driver, TRUE, FALSE),
               _get_steps_from_deployment_templates(templates))


(***************************************************************************)
(* The drivers, staged clean steps and deploy templates the step functions *)
(* are run on.                                                             *)
(***************************************************************************)
(* the longest list of user steps (staged clean steps, template steps) *)
MaxUserSteps == 3
(* the longest list handed to _sorted_steps directly *)
MaxSortLen == 3

(* clean steps of the driver interfaces *)
EraseDevices ==
    [interface |-> "deploy", step |-> "erase_devices", priority |-> 10,
     abortable |-> TRUE,
     argsinfo |-> [passes |-> [description |-> "overwrite passes"]]]
EraseMetadata ==
    [interface |-> "deploy", step |-> "erase_devices_metadata",
     priority |-> 10, abortable |-> FALSE]
UpdateFirmware ==
    [interface |-> "deploy", step |-> "update_firmware",
     argsinfo |-> [url |-> [description |-> "firmware image",
                            required |-> TRUE]]]
ResetBmc ==
    [interface |-> "management", step |-> "reset_bmc", priority |-> 10,
     abortable |-> FALSE]
DeleteConfiguration ==
    [interface |-> "raid", step |-> "delete_configuration", priority |-> 0,
     abortable |-> FALSE]

(* deploy steps of the driver interfaces *)
CoreDeploy ==
    [interface |-> "deploy", step |-> "deploy", priority |-> 100]
ApplyConfiguration ==
    [interface |-> "bios", step |-> "apply_configuration", priority |-> 0,
     argsinfo |-> [settings |-> [description |-> "BIOS settings",
                                 required |-> TRUE]]]
CreateConfiguration ==
    [interface |-> "raid", step |-> "create_configuration", priority |-> 100]
(* a step its interface returns without a priority *)
InjectNmi == [interface |-> "management", step |-> "inject_nmi"]

Drivers ==
    { [get_clean_steps |->
           [deploy |-> <<EraseDevices, EraseMetadata>>,
            management |-> <<ResetBmc>>, raid |-> <<DeleteConfiguration>>],
       get_deploy_steps |->
           [deploy |-> <<CoreDeploy>>, bios |-> <<ApplyConfiguration>>,
            raid |-> <<CreateConfiguration>>]],
      [get_clean_steps |->
           [deploy |-> <<UpdateFirmware, EraseDevices>>,
            raid |-> <<DeleteConfiguration>>],
       get_deploy_steps |->
           [management |-> <<InjectNmi>>, deploy |-> <<CoreDeploy>>,
            raid |-> <<CreateConfiguration>>]],
      [get_clean_steps |->
           [deploy |-> <<EraseMetadata, EraseDevices>>,
            management |-> <<ResetBmc>>],
       get_deploy_steps |->
           [deploy |-> <<CoreDeploy>>, bios |-> <<ApplyConfiguration>>]] }

(* clean steps a user stages for manual cleaning *)
UserCleanSteps ==
    { [interface |-> "deploy", step |-> "erase_devices"],
      [interface |-> "deploy", step |-> "erase_devices",
       args |-> [passes |-> "3"], priority |-> 999, abortable |-> FALSE],
      [interface |-> "deploy", step |-> "erase_devices",
       args |-> [force |-> "True"]],
      [interface |-> "deploy", step |-> "update_firmware", args |-> <<>>],
      [interface |-> "management", step |-> "reset_bmc", abortable |-> TRUE],
      [interface |-> "raid", step |-> "delete_configuration"] }

(* steps of deploy templates *)
TemplateSteps ==
    { [interface |-> "bios", step |-> "apply_configuration",
       args |-> [settings |-> "boot order"], priority |-> 150],
      [interface |-> "bios", step |-> "apply_configuration",
       args |-> <<>>, priority |-> 20],
      [interface |-> "bios", step |-> "apply_configuration",
       args |-> <<>>, priority |-> 0],
      [interface |-> "deploy", step |-> "deploy", args |-> <<>>,
       priority |-> 0],
      [interface |-> "deploy", step |-> "deploy", args |-> <<>>,
       priority |-> 50],
      [interface |-> "raid", step |-> "create_configuration",
       args |-> [force |-> "True"], priority |-> 100],
      [interface |-> "raid", step |-> "create_configuration",
       args |-> [force |-> "True"], priority |-> 0] }

(* steps handed to _sorted_steps: every one has a priority and an          *)
(* interface of the tables                                                 *)
SortableSteps ==
    { EraseDevices, EraseMetadata, ResetBmc, DeleteConfiguration,
      [interface |-> "power", step |-> "power_cycle", priority |-> 0,
       abortable |-> FALSE],
      [interface |-> "bios", step |-> "factory_reset", priority |-> 20,
       abortable |-> FALSE] }

SeqsUpTo(S, n) == UNION {[1..k -> S] : k \in 0..n}

(* the ways to cut a list of steps into templates of one step or more *)
RECURSIVE Splits(_)
Splits(flat) ==
    IF flat = <<>> THEN {<<>>}
    ELSE UNION {{<<SubSeq(flat, 1, k)>> \o rest :
                    rest \in Splits(SubSeq(flat, k + 1, Len(flat)))} :
                k \in 1..Len(flat)}

(* the matching deploy templates: lists of templates, each a non-empty     *)
(* list of steps, MaxUserSteps steps in all at most                        *)
TemplateLists ==
    UNION {Splits(flat) : flat \in SeqsUpTo(TemplateSteps, MaxUserSteps)}

StepNode(prov, tprov, clean_steps) ==
    [uuid |-> "1be26c0b", driver |-> "ipmi",
     power_state |-> POWER_ON, target_power_state |-> NOSTATE,
     last_error |-> NoError,
     provision_state |-> prov, target_provision_state |-> tprov,
     maintenance |-> FALSE, maintenance_reason |-> NoError, fault |-> None,
     clean_step |-> EmptyStep, deploy_step |-> EmptyStep,
     driver_internal_info |->
         [clean_step_index |-> Absent, cleaning_reboot |-> Absent,
          deploy_step_index |-> Absent,
          clean_steps |-> clean_steps, deploy_steps |-> <<>>],
     instance_info |-> [rescue_password |-> Absent]]

(* a node that is deployed again: the step list and the cursor of the      *)
(* earlier deployment are still in the record                              *)
RedeployedNode ==
    [StepNode(DEPLOYING, ACTIVE, <<>>) EXCEPT
        !.deploy_step = "deploy",
        !.driver_internal_info.deploy_step_index = "0",
        !.driver_internal_info.deploy_steps = <<CoreDeploy>>]

(* A node entering automated cleaning, manual cleaning with the steps the  *)
(* user staged, or deployment with the templates its instance traits       *)
(* match; a node being cleaned has no instance, hence no traits.           *)
StepNodes ==
    {StepNode(CLEANING, AVAILABLE, <<>>), RedeployedNode}
    \cup {StepNode(CLEANING, MANAGEABLE, us) :
             us \in SeqsUpTo(UserCleanSteps, MaxUserSteps)}

StepInit ==
    /\ db \in StepNodes
    /\ env \in [driver : Drivers,
                 templates : IF db.provision_state = DEPLOYING
                             THEN TemplateLists ELSE {<<>>}]
    /\ node = db
    /\ pc = "idle"
    /\ op = None
    /\ task = NoTask
    /\ loc = NoLoc
    /\ log = <<>>
    /\ result = None
    /\ pre = db
    /\ calls = 0


(***************************************************************************)
(* set_node_cleaning_steps                                                 *)
(***************************************************************************)
set_node_cleaning_steps ==
    /\ db.provision_state = CLEANING
    /\ Begin("set_node_cleaning_steps", FALSE, NoLoc, "sncs")
    /\ UNCHANGED calls

(* the node after lines 764-766 *)
CleaningStaged(n, steps) ==
    [n EXCEPT !.clean_step = EmptyStep,
              !.driver_internal_info.clean_steps = steps,
              !.driver_internal_info.clean_step_index = None]

(* Lines 744-766.  driver_internal_info and the staged step dictionaries   *)
(* are the node's own objects: _validate_user_step writes into them while  *)
(* the loop runs, before the collected errors are raised.                  *)
SncsSteps ==
    /\ pc = "sncs"
    /\ LET manual_clean == node.target_provision_state = MANAGEABLE
           steps == node.driver_internal_info.clean_steps
           v == _validate_user_clean_steps(env.driver, steps)
       IN IF ~manual_clean
          THEN IF GetStepsRaises(env.driver, "get_clean_steps", TRUE)
               THEN /\ result' = "KeyError"
                    /\ pc' = "done"
                    /\ UNCHANGED <<node, loc>>
               ELSE /\ node' = CleaningStaged(
                                   node, _get_cleaning_steps(env.driver, TRUE, TRUE))
                    /\ loc' = [loc EXCEPT !.manual_clean = FALSE,
                                          !.step_type = "clean"]
                    /\ pc' = "sncs_save"
                    /\ UNCHANGED result
          ELSE /\ loc' = [loc EXCEPT
                             !.manual_clean = TRUE,
                             !.step_type = "clean",
                             !.user_steps = steps,
                             !.driver_steps =
                                 _get_cleaning_steps(env.driver, FALSE, FALSE),
                             !.steps = v.user_steps,
                             !.errors = v.errors]
               /\ IF v.errors # <<>>
                  THEN /\ node' = [node EXCEPT
                                      !.driver_internal_info.clean_steps =
                                          v.user_steps]
                       /\ result' = "InvalidParameterValue"
                       /\ pc' = "done"
                  ELSE /\ node' = CleaningStaged(node, v.user_steps)
                       /\ pc' = "sncs_save"
                       /\ UNCHANGED result
    /\ log' = Emit(Ev("get_clean_steps", "driver", "ok"))
    /\ UNCHANGED <<db, op, task, pre, calls, env>>

SncsSave ==
    /\ pc = "sncs_save"
    /\ db' = node
    /\ log' = Emit(SaveEv)
    /\ pc' = "done"
    /\ result' = "returned"
    /\ UNCHANGED <<node, op, task, loc, pre, calls, env>>

(***************************************************************************)
(* validate_deploy_templates                                               *)
(***************************************************************************)
validate_deploy_templates ==
    /\ db.provision_state = DEPLOYING
    /\ Begin("validate_deploy_templates", FALSE, NoLoc, "vdt")
    /\ UNCHANGED calls

VdtValidate ==
    /\ pc = "vdt"
    /\ LET user_steps == _get_steps_from_deployment_templates(env.templates)
           v == _validate_user_deploy_steps(env.driver, user_steps)
       IN /\ loc' = [loc EXCEPT
                        !.step_type = "deploy",
                        !.user_steps = user_steps,
                        !.driver_steps =
                            _get_deployment_steps(env.driver, FALSE, FALSE),
                        !.steps = v.user_steps,
                        !.errors = v.errors]
          /\ result' = IF v.errors # <<>> THEN "InvalidParameterValue"
                       ELSE "returned"
    /\ log' = Emit(Ev("get_deploy_steps", "driver", "ok"))
    /\ pc' = "done"
    /\ UNCHANGED <<node, db, op, task, pre, calls, env>>

(***************************************************************************)
(* set_node_deployment_steps                                               *)
(***************************************************************************)
set_node_deployment_steps ==
    /\ db.provision_state = DEPLOYING
    /\ Begin("set_node_deployment_steps", FALSE, NoLoc, "snds")
    /\ UNCHANGED calls

SndsSteps ==
    /\ pc = "snds"
    /\ IF GetStepsRaises(env.driver, "get_deploy_steps", TRUE)
       THEN /\ result' = "KeyError"
            /\ pc' = "done"
            /\ UNCHANGED <<node, loc>>
       ELSE /\ loc' = [loc EXCEPT
                          !.step_type = "deploy",
                          !.user_steps =
                              _get_steps_from_deployment_templates(env.templates),
                          !.driver_steps =
                              _get_deployment_steps(env.driver, TRUE, FALSE),
                          !.returned =
                              _get_all_deployment_steps(env.driver, env.templates)]
            /\ node' = [node EXCEPT
                           !.deploy_step = EmptyStep,
                           !.driver_internal_info.deploy_steps =
                               _get_all_deployment_steps(env.driver, env.templates),
                           !.driver_internal_info.deploy_step_index = None]
            /\ pc' = "snds_save"
            /\ UNCHANGED result
    /\ log' = Emit(Ev("get_deploy_steps", "driver", "ok"))
    /\ UNCHANGED <<db, op, task, pre, calls, env>>

SndsSave ==
    /\ pc = "snds_save"
    /\ db' = node
    /\ log' = Emit(SaveEv)
    /\ pc' = "done"
    /\ result' = "returned"
    /\ UNCHANGED <<node, op, task, loc, pre, calls, env>>

(***************************************************************************)
(* _sorted_steps on its own                                                *)
(***************************************************************************)
sorted_steps(steps, sort_step_key) ==
    /\ Begin("_sorted_steps", FALSE,
             [NoLoc EXCEPT !.steps = steps, !.sort_step_key = sort_step_key],
             "sort")
    /\ UNCHANGED calls

SortedSteps ==
    /\ pc = "sort"
    /\ loc' = [loc EXCEPT !.returned = _sorted_steps(loc.steps, loc.sort_step_key)]
    /\ pc' = "done"
    /\ result' = "returned"
    /\ UNCHANGED <<node, db, op, task, log, pre, calls, env>>

StepNext ==
    \/ set_node_cleaning_steps
    \/ SncsSteps
    \/ SncsSave
    \/ validate_deploy_templates
    \/ VdtValidate
    \/ set_node_deployment_steps
    \/ SndsSteps
    \/ SndsSave
    \/ Finish

(* the step functions on a node entering cleaning or deployment *)
StepSpec == StepInit /\ [][StepNext]_vars

(* _sorted_steps on every list of sortable steps, with either key *)
SortInit ==
    /\ db = StepNode(CLEANING, AVAILABLE, <<>>)
    /\ env = NoEnv
    /\ node = db
    /\ pc = "idle"
    /\ op = None
    /\ task = NoTask
    /\ loc = NoLoc
    /\ log = <<>>
    /\ result = None
    /\ pre = db
    /\ calls = 0

SortNext ==
    \/ \E steps \in SeqsUpTo(SortableSteps, MaxSortLen),
          sort_step_key \in {"_clean_step_key", "_deploy_step_key"} :
          sorted_steps(steps, sort_step_key)
    \/ SortedSteps
    \/ Finish

SortSpec == SortInit /\ [][SortNext]_vars


(***************************************************************************)
(* The hooks called when the worker of a request could not be spawned:     *)
(* provisioning_error_handler, _spawn_error_handler and its three callers  *)
(* (power_state_error_handler is above).                                   *)
(***************************************************************************)
NoFreeWorkersMsg == <<"No free conductor workers available">>

(* the states a request's caller had read before the request moved the    *)
(* node, and hands to the hook                                             *)
PreviousProvisionStates == {AVAILABLE, ACTIVE, MANAGEABLE}
PreviousTargetStates == {NOSTATE, ACTIVE}

(* lines 383-385, the states left as they are *)
ProvisionStateRestored_KeepsState(n, provision_state, target_provision_state) ==
    [n EXCEPT !.last_error = NoFreeWorkersMsg]

(* lines 383-385 *)
ProvisionStateRestored(n, provision_state, target_provision_state) ==
    [n EXCEPT !.provision_state = provision_state,
              !.target_provision_state = target_provision_state,
              !.last_error = NoFreeWorkersMsg]

provisioning_error_handler(e, provision_state, target_provision_state) ==
    /\ Begin("provisioning_error_handler", FALSE,
             [NoLoc EXCEPT !.exc = e,
                           !.provision_state = provision_state,
                           !.target_provision_state = target_provision_state],
             "peh")
    /\ UNCHANGED calls

ProvisioningErrorHandler ==
    /\ pc = "peh"
    /\ IF loc.exc = NoFreeConductorWorker
       THEN /\ node' = ProvisionStateRestored(node, loc.provision_state,
                                              loc.target_provision_state)
            /\ db' = node'
            /\ log' = Emit(SaveEv)
       ELSE UNCHANGED <<node, db, log>>
    /\ pc' = "done"
    /\ result' = "returned"
    /\ UNCHANGED <<op, task, loc, pre, calls, env>>

(* remove_node_rescue_password(node, save=False), lines 1179-1182 *)
remove_node_rescue_password(n) ==
    [n EXCEPT !.instance_info.rescue_password = Absent]

SpawnOperations ==
    [spawn_cleaning_error_handler |-> CLEANING,
     spawn_deploying_error_handler |-> DEPLOYING,
     spawn_rescue_error_handler |-> "rescue"]

(* spawn_cleaning_error_handler, spawn_deploying_error_handler and         *)
(* spawn_rescue_error_handler                                              *)
spawn_error_handler(name, e) ==
    /\ Begin(name, FALSE,
             [NoLoc EXCEPT !.exc = e, !.operation = SpawnOperations[name]],
             "seh")
    /\ UNCHANGED calls

(* _spawn_error_handler, after the password removal of the rescue hook *)
SpawnErrorHandler ==
    /\ pc = "seh"
    /\ IF loc.exc = NoFreeConductorWorker
       THEN /\ node' = [(IF op = "spawn_rescue_error_handler"
                         THEN remove_node_rescue_password(node) ELSE node)
                           EXCEPT !.last_error = NoFreeWorkersMsg]
            /\ db' = node'
            /\ log' = Emit(SaveEv)
       ELSE UNCHANGED <<node, db, log>>
    /\ pc' = "done"
    /\ result' = "returned"
    /\ UNCHANGED <<op, task, loc, pre, calls, env>>

SpawnExceptions == {NoFreeConductorWorker, "Exception"}

(* a rescue being set up has staged its password *)
SpawnNodes ==
    InitNodes \cup
    {[n EXCEPT !.instance_info.rescue_password = "secret"] : n \in InitNodes}

SpawnInit ==
    /\ db \in SpawnNodes
    /\ node = db
    /\ pc = "idle"
    /\ op = None
    /\ task = NoTask
    /\ loc = NoLoc
    /\ log = <<>>
    /\ result = None
    /\ pre = db
    /\ calls = 0
    /\ env = NoEnv

SpawnNext ==
    \/ \E e \in SpawnExceptions, provision_state \in PreviousProvisionStates,
          target_provision_state \in PreviousTargetStates :
          provisioning_error_handler(e, provision_state, target_provision_state)
    \/ ProvisioningErrorHandler
    \/ \E e \in SpawnExceptions, power_state \in {POWER_ON, POWER_OFF} :
          power_state_error_handler(e, power_state)
    \/ PowerStateErrorHandler
    \/ \E name \in DOMAIN SpawnOperations, e \in SpawnExceptions :
          spawn_error_handler(name, e)
    \/ SpawnErrorHandler
    \/ Finish

(* the spawn-error hooks, in any order on one node *)
SpawnSpec == SpawnInit /\ [][SpawnNext]_vars


(***************************************************************************)
(* node_set_boot_device and node_set_boot_mode                             *)
(***************************************************************************)
BootDevices == {"pxe", "disk"}
BootModes == {"bios", "uefi"}

(* what the calls to the management interface may raise *)
ManagementErrors == {"InvalidParameterValue", "IronicException"}

(* what get_supported_boot_modes may return *)
SupportedBootModes == {{}, {"bios"}, {"bios", "uefi"}}

(* line 85 without the test *)
SetsBootDevice_Always(n) == TRUE

(* line 85 *)
SetsBootDevice(n) == n.provision_state # ADOPTING

node_set_boot_device(device, persistent, shared) ==
    /\ Begin("node_set_boot_device", shared,
             [NoLoc EXCEPT !.device = <<device, persistent>>], "nsbd_enter")
    /\ UNCHANGED calls

(* @task_manager.require_exclusive_lock *)
NsbdEnter ==
    /\ pc = "nsbd_enter"
    /\ IF require_exclusive_lock(task)
       THEN pc' = "nsbd_validate" /\ UNCHANGED result
       ELSE pc' = "done" /\ result' = "ExclusiveLockRequired"
    /\ UNCHANGED <<node, db, op, task, loc, log, pre, calls, env>>

(* line 84: task.driver.management.validate(task), then the test of line 85 *)
NsbdValidate ==
    /\ pc = "nsbd_validate"
    /\ \E outcome \in {"ok"} \cup ManagementErrors :
          /\ log' = Emit(Ev("validate", "management", outcome))
          /\ IF outcome # "ok"
             THEN pc' = "done" /\ result' = outcome
             ELSE IF SetsBootDevice(node)
             THEN pc' = "nsbd_set" /\ UNCHANGED result
             ELSE pc' = "done" /\ result' = "returned"
    /\ UNCHANGED <<node, db, op, task, loc, pre, calls, env>>

(* lines 86-88 *)
NsbdSet ==
    /\ pc = "nsbd_set"
    /\ \E outcome \in {"ok"} \cup ManagementErrors :
          /\ log' = Emit(Ev("set_boot_device", loc.device[1], outcome))
          /\ result' = IF outcome = "ok" THEN "returned" ELSE outcome
    /\ pc' = "done"
    /\ UNCHANGED <<node, db, op, task, loc, pre, calls, env>>

node_set_boot_mode(mode, shared) ==
    /\ Begin("node_set_boot_mode", shared, [NoLoc EXCEPT !.mode = mode],
             "nsbm_enter")
    /\ UNCHANGED calls

(* @task_manager.require_exclusive_lock, then lines 134-135 *)
NsbmEnter ==
    /\ pc = "nsbm_enter"
    /\ IF ~require_exclusive_lock(task)
       THEN pc' = "done" /\ result' = "ExclusiveLockRequired"
       ELSE IF node.provision_state = ADOPTING
       THEN pc' = "done" /\ result' = "returned"
       ELSE pc' = "nsbm_validate" /\ UNCHANGED result
    /\ UNCHANGED <<node, db, op, task, loc, log, pre, calls, env>>

(* line 137 *)
NsbmValidate ==
    /\ pc = "nsbm_validate"
    /\ \E outcome \in {"ok"} \cup ManagementErrors :
          /\ log' = Emit(Ev("validate", "management", outcome))
          /\ IF outcome # "ok"
             THEN pc' = "done" /\ result' = outcome
             ELSE pc' = "nsbm_modes" /\ UNCHANGED result
    /\ UNCHANGED <<node, db, op, task, loc, pre, calls, env>>

(* lines 139-149 without the test of line 141 *)
NsbmModes_AnyMode ==
    /\ pc = "nsbm_modes"
    /\ \/ \E boot_modes \in SupportedBootModes :
             /\ log' = Emit(Ev("get_supported_boot_modes", "management", "ok"))
             /\ loc' = [loc EXCEPT !.boot_modes = boot_modes]
             /\ pc' = "nsbm_set" /\ UNCHANGED result
       \/ \E e \in ManagementErrors :
             /\ log' = Emit(Ev("get_supported_boot_modes", "management", e))
             /\ pc' = "done"
             /\ result' = e
             /\ UNCHANGED loc
    /\ UNCHANGED <<node, db, op, task, pre, calls, env>>

(* lines 139-147: get_supported_boot_modes and the test of the mode *)
NsbmModes ==
    /\ pc = "nsbm_modes"
    /\ \/ \E boot_modes \in SupportedBootModes :
             /\ log' = Emit(Ev("get_supported_boot_modes", "management", "ok"))
             /\ loc' = [loc EXCEPT !.boot_modes = boot_modes]
             /\ IF loc.mode \notin boot_modes
                THEN pc' = "done" /\ result' = "InvalidParameterValue"
                ELSE pc' = "nsbm_set" /\ UNCHANGED result
       \/ \E e \in ManagementErrors :
             /\ log' = Emit(Ev("get_supported_boot_modes", "management", e))
             /\ pc' = "done"
             /\ result' = e
             /\ UNCHANGED loc
    /\ UNCHANGED <<node, db, op, task, pre, calls, env>>

(* line 149 *)
NsbmSet ==
    /\ pc = "nsbm_set"
    /\ \E outcome \in {"ok"} \cup ManagementErrors :
          /\ log' = Emit(Ev("set_boot_mode", loc.mode, outcome))
          /\ result' = IF outcome = "ok" THEN "returned" ELSE outcome
    /\ pc' = "done"
    /\ UNCHANGED <<node, db, op, task, loc, pre, calls, env>>

BootNext ==
    \/ \E device \in BootDevices, persistent \in BOOLEAN, shared \in BOOLEAN :
          node_set_boot_device(device, persistent, shared)
    \/ NsbdEnter
    \/ NsbdValidate
    \/ NsbdSet
    \/ \E mode \in BootModes, shared \in BOOLEAN : node_set_boot_mode(mode, shared)
    \/ NsbmEnter
    \/ NsbmValidate
    \/ NsbmModes
    \/ NsbmSet
    \/ Finish

(* boot device and boot mode requests on one node *)
BootSpec == Init /\ [][BootNext]_vars


(***************************************************************************)
(* Power requests on a node whose record still carries the target of an    *)
(* earlier power action: line 300 saved target_power_state and the         *)
(* conductor stopped before line 324 or 332 reset it, so the request that  *)
(* arrives next is a retry or a duplicate.                                 *)
(***************************************************************************)
InterruptedNodes ==
    { [n EXCEPT !.target_power_state = t] :
          n \in InitNodes, t \in {NOSTATE, POWER_ON, POWER_OFF} }

RetryInit ==
    /\ db \in InterruptedNodes
    /\ node = db
    /\ pc = "idle"
    /\ op = None
    /\ task = NoTask
    /\ loc = NoLoc
    /\ log = <<>>
    /\ result = None
    /\ pre = db
    /\ calls = 0
    /\ env = NoEnv

RetrySpec == RetryInit /\ [][PowerNext]_vars


(***************************************************************************)
(* The cleaning and deploying error handlers on nodes that carry step      *)
(* cursors and staged step lists in whatever provision state they are:     *)
(* the handlers are called with the node as the failed operation left it,  *)
(* and the provision state may have moved on since.                        *)
(***************************************************************************)
CursorNodes ==
    InitNodes \cup
    { [n EXCEPT !.clean_step = "erase_devices",
                !.deploy_step = "deploy",
                !.driver_internal_info =
                    [clean_step_index |-> "0", cleaning_reboot |-> "True",
                     deploy_step_index |-> "0",
                     clean_steps |-> <<EraseDevices>>,
                     deploy_steps |-> <<CoreDeploy>>]] : n \in InitNodes }

CursorInit ==
    /\ db \in CursorNodes
    /\ node = db
    /\ pc = "idle"
    /\ op = None
    /\ task = NoTask
    /\ loc = NoLoc
    /\ log = <<>>
    /\ result = None
    /\ pre = db
    /\ calls = 0
    /\ env = NoEnv

(* Another writer persists that the deployment is over (failed or done)    *)
(* while the handler's cleanup runs, before the handler reloads the node.  *)
ConcurrentDeployOver ==
    /\ pc = "deh_refresh"
    /\ db.provision_state \in {DEPLOYING, DEPLOYWAIT}
    /\ \E p \in {DEPLOYFAIL, ACTIVE} :
          db' = [db EXCEPT !.provision_state = p]
    /\ UNCHANGED <<node, pc, op, task, loc, log, result, pre, calls, env>>

CursorNext ==
    \/ \E msg \in CallerMsgs, tear_down_cleaning \in BOOLEAN,
          set_fail_state \in BOOLEAN, shared \in BOOLEAN :
          cleaning_error_handler(msg, tear_down_cleaning, set_fail_state, shared)
    \/ \E shared \in BOOLEAN : cleanup_cleanwait_timeout(shared)
    \/ CehTearDown
    \/ CehSave
    \/ CehFail
    \/ \E errmsg \in CallerMsgs, clean_up \in BOOLEAN, shared \in BOOLEAN :
          deploying_error_handler(errmsg, clean_up, shared)
    \/ \E shared \in BOOLEAN : cleanup_after_timeout(shared)
    \/ CatEnter
    \/ DehSave
    \/ DehCleanUp
    \/ ConcurrentProvisionUpdate
    \/ ConcurrentDeployOver
    \/ DehRefresh
    \/ DehSaveAgain
    \/ DehFail
    \/ \E shared \in BOOLEAN : abort_on_conductor_take_over(shared)
    \/ AbortOnTakeOver
    \/ Finish

CursorSpec == CursorInit /\ [][CursorNext]_vars


(***************************************************************************)
(* Properties                                                              *)
(***************************************************************************)
TopPowerAction == op = "node_power_action"
PowerCallKinds == {"set_power_state", "reboot"}
VolumeKinds == {"attach_volumes", "detach_volumes"}

(* C1: whenever no power action is executing (before a call, after it has  *)
(* returned or raised), the persisted target_power_state is NOSTATE.       *)
C1_TargetNoStateWhenIdle ==
    pc \notin NpaPcs => db.target_power_state = NOSTATE

(* a power action that had saved a target and then failed in the driver *)
C1_Witness ==
    /\ pc = "done"
    /\ TopPowerAction
    /\ Raised(log, "set_power_state")
    /\ CountKind(log, "save") = 2
    /\ db.target_power_state = NOSTATE

(* C2: a POWER_ON, POWER_OFF or SOFT_POWER_OFF request for which           *)
(* get_power_state returns the semantic target makes no set_power_state,   *)
(* reboot, attach_volumes or detach_volumes call and returns with the      *)
(* saved node having last_error cleared, power_state equal to the observed *)
(* state and target_power_state none.                                      *)
C2_ObservedIsTarget ==
    \E i \in 1..Len(log) :
        /\ log[i][1] = "get_power_state"
        /\ \/ loc.new_state = POWER_ON /\ log[i][3] = POWER_ON
           \/ loc.new_state \in {POWER_OFF, SOFT_POWER_OFF}
              /\ log[i][3] = POWER_OFF

C2_SkipMakesNoDriverCall ==
    (TopPowerAction /\ C2_ObservedIsTarget) =>
        /\ Kinds(log) \cap (PowerCallKinds \cup VolumeKinds) = {}
        /\ pc \in {"npa_skip_save", "npa_skip_notify", "done"}
        /\ pc = "done" =>
              /\ result = "returned"
              /\ db.last_error = NoError
              /\ db.power_state = calculate_target_state(loc.new_state)
              /\ db.power_state = loc.curr_state
              /\ db.target_power_state = NOSTATE

(* a soft power off of a node that is off, with an earlier error recorded *)
C2_Witness ==
    /\ pc = "done"
    /\ TopPowerAction
    /\ loc.new_state = SOFT_POWER_OFF
    /\ C2_ObservedIsTarget
    /\ pre.last_error # NoError
    /\ pre.power_state = POWER_ON

(* C3 as stated: every power-set notification, START included, comes after *)
(* a save made earlier in the same call.                                   *)
C3_EveryNotificationAfterSave ==
    (op = "node_power_action") =>
        \A i \in 1..Len(log) :
            log[i][1] = "notify" => \E j \in 1..(i - 1) : log[j] = SaveEv

(* C3, amended: every END and ERROR notification comes after a save made   *)
(* earlier in the same call, and whenever a notification has just been     *)
(* emitted no field change of the call is unsaved; the START notification  *)
(* is the first effect of the call, emitted before any save and before any *)
(* field change.                                                           *)
C3_TerminalNotificationAfterSave ==
    (op = "node_power_action") =>
        /\ \A i \in 1..Len(log) :
              log[i] \in {NotifyEnd, NotifyError} =>
                  \E j \in 1..(i - 1) : log[j] = SaveEv
        /\ (log # <<>> /\ Last(log)[1] = "notify") => node = db
        /\ \A i \in 1..Len(log) : log[i] = NotifyStart => i = 1
        /\ log = <<NotifyStart>> => (node = pre /\ db = pre)

(* an ERROR notification of a failed reboot, emitted after the save *)
C3_Witness ==
    /\ op = "node_power_action"
    /\ log # <<>>
    /\ Last(log) = NotifyError
    /\ Raised(log, "reboot")
    /\ db # pre

(* C4: when set_power_state or reboot raises, the call re-raises the same  *)
(* exception after the node was saved with target_power_state none and     *)
(* last_error naming the failed target and the request; one ERROR          *)
(* notification follows that save, no END notification is emitted and      *)
(* power_state keeps its value from before the call.                       *)
C4_PowerCallRaised ==
    TopPowerAction /\ (Raised(log, "set_power_state") \/ Raised(log, "reboot"))

C4_DriverFailureRecorded ==
    (C4_PowerCallRaised /\ pc = "done") =>
        /\ result = Last(SelectSeq(log, LAMBDA e : e[1] \in PowerCallKinds))[3]
        /\ db = node
        /\ db.target_power_state = NOSTATE
        /\ db.last_error =
              <<"Failed to change power state to",
                calculate_target_state(loc.new_state), "by", loc.new_state,
                "Error", result>>
        /\ Count(log, NotifyError) = 1
        /\ Count(log, NotifyEnd) = 0
        /\ Last(log) = NotifyError
        /\ log[Len(log) - 1] = SaveEv
        /\ db.power_state = pre.power_state

(* a soft reboot of a powered-off node whose driver call raised *)
C4_Witness ==
    /\ C4_PowerCallRaised
    /\ pc = "done"
    /\ loc.new_state = SOFT_REBOOT
    /\ pre.power_state = POWER_OFF
    /\ result = "Exception"

(* C5: when attach_volumes raises (target POWER_ON, node ACTIVE), neither  *)
(* set_power_state nor reboot is ever called, the node is saved with       *)
(* target_power_state none and last_error populated, and the attach        *)
(* exception is re-raised.                                                 *)
C5_AttachRaised == TopPowerAction /\ Raised(log, "attach_volumes")

C5_AttachFailureStopsPowerCall ==
    C5_AttachRaised =>
        /\ Kinds(log) \cap PowerCallKinds = {}
        /\ calculate_target_state(loc.new_state) = POWER_ON
        /\ pre.provision_state = ACTIVE
        /\ pc \in {"npa_err_save", "npa_err_notify", "done"}
        /\ pc = "done" =>
              /\ result = Last(SelectSeq(log, LAMBDA e : e[1] = "attach_volumes"))[3]
              /\ db = node
              /\ db.target_power_state = NOSTATE
              /\ db.last_error # NoError
              /\ db.last_error[Len(db.last_error)] = result

(* a reboot request on an ACTIVE node whose volume attach failed *)
C5_Witness ==
    /\ C5_AttachRaised
    /\ pc = "done"
    /\ loc.new_state = REBOOT
    /\ result = "StorageError"


(* the operations of the model that change or save the node *)
MutatingOps ==
    {"node_power_action", "cleaning_error_handler", "deploying_error_handler",
     "rescuing_error_handler", "cleanup_after_timeout",
     "cleanup_cleanwait_timeout", "cleanup_rescuewait_timeout",
     "abort_on_conductor_take_over"}

(* C6: a mutating operation invoked with a task that holds only a shared   *)
(* lock neither modifies nor saves any node field.                         *)
C6_SharedLockNeverMutates ==
    (op \in MutatingOps /\ task.shared) =>
        /\ node = pre
        /\ db = pre
        /\ ~Has(log, SaveEv)

(* C7: the hand-off reads the uuid and the topic while the lock is held,   *)
(* releases the task exactly once and before the RPC, issues the RPC       *)
(* exactly once with the uuid and topic read earlier, and after the        *)
(* release neither reads, modifies nor saves the node.                     *)
C7_Releases == {i \in 1..Len(log) : log[i][1] = "release_resources"}
C7_Rpcs == {i \in 1..Len(log) : log[i][1] \in ResumeMethods}
C7_NodeAccesses == {i \in 1..Len(log) : log[i][1] \in {"node", "save", "refresh"}}

C7_ReleaseBeforeRpc ==
    (op = "notify_conductor_resume_operation") =>
        /\ Cardinality(C7_Releases) <= 1
        /\ Cardinality(C7_Rpcs) <= 1
        /\ task.released <=> (C7_Releases # {})
        /\ \A r \in C7_Rpcs :
              /\ \E j \in C7_Releases : j < r
              /\ \E i, k \in C7_NodeAccesses :
                    /\ log[i] = Ev("node", "uuid", log[r][2])
                    /\ log[k] = Ev("node", "get_topic_for", log[r][3])
              /\ log[r] = Ev(loc.method, pre.uuid, get_topic_for(pre))
        /\ \A j \in C7_Releases : \A i \in C7_NodeAccesses : i < j
        /\ node = pre
        /\ db = pre
        /\ pc = "done" =>
              /\ Cardinality(C7_Releases) = 1
              /\ Cardinality(C7_Rpcs) = 1
              /\ result \in {"returned"} \cup RpcErrors

(* a completed resume-deploying hand-off *)
C7_Witness ==
    /\ op = "notify_conductor_resume_operation"
    /\ pc = "done"
    /\ loc.method = "continue_node_deploy"
    /\ result = "returned"
    /\ task.released

(* C8: every call of deploying_error_handler (with a user message, which   *)
(* callers pass non-empty) ends with the persisted last_error non-empty    *)
(* and with process_event('fail') invoked exactly once, after the final    *)
(* save; the cleanup exception is never propagated.                        *)
C8_HandlerRan ==
    \/ op = "deploying_error_handler"
    \/ op = "cleanup_after_timeout" /\ pc # "cat_enter" /\ ~task.shared

C8_DeployFailAlwaysRecorded ==
    C8_HandlerRan =>
        /\ CountKind(log, "process_event") <= 1
        /\ \A i \in 1..Len(log) :
              log[i][1] = "process_event" =>
                  /\ i = Len(log)
                  /\ log[i - 1] = SaveEv
                  /\ CountKind(log, "save") = 2
                  /\ pc = "done"
        /\ pc = "done" =>
              /\ CountKind(log, "process_event") = 1
              /\ db.last_error # NoError
              /\ db = node
              /\ result \in {"returned", "InvalidState"}

(* the cleanup raised a non-domain exception and the handler still ended *)
C8_Witness ==
    /\ op = "deploying_error_handler"
    /\ pc = "done"
    /\ Raised(log, "clean_up")
    /\ Has(log, Ev("clean_up", "deploy", "Exception"))
    /\ result = "returned"

IsPrefix(a, b) == Len(a) <= Len(b) /\ SubSeq(b, 1, Len(a)) = a

(* C9: when the cleanup-phase driver call of an error handler raises, the  *)
(* handler does not propagate it, and the persisted last_error holds the   *)
(* caller's message with the cleanup failure appended to it.               *)
C9_CleanupRaised ==
    \/ Raised(log, "tear_down_cleaning")
    \/ Raised(log, "clean_up")
    \/ (op \in RescueOps /\ (Raised(log, "get_power_state")
                             \/ Raised(log, "set_power_state")))

C9_CleanupFailureAppended ==
    (pc = "done" /\ op \in MutatingOps /\ C9_CleanupRaised) =>
        /\ result \notin {"IronicException", "Exception", "StorageError"}
        /\ IsPrefix(loc.arg_msg, db.last_error)
        /\ Len(db.last_error) > Len(loc.arg_msg)

(* C10: every call of cleaning_error_handler saves the node with           *)
(* last_error set, maintenance true, maintenance_reason equal to           *)
(* last_error and fault CLEAN_FAILURE, before any 'fail' transition.       *)
C10_HandlerRan ==
    \/ op \in {"cleaning_error_handler", "cleanup_cleanwait_timeout"}
    \/ op = "abort_on_conductor_take_over" /\ pc # "abort_enter"
       /\ pre.provision_state = CLEANFAIL /\ ~task.shared

C10_CleanFailureSavedBeforeFail ==
    C10_HandlerRan =>
        /\ \A i \in 1..Len(log) :
              log[i][1] = "process_event" =>
                  \E j \in 1..(i - 1) : log[j] = SaveEv
        /\ pc \in {"ceh_fail", "done"} =>
              /\ CountKind(log, "save") = 1
              /\ db.last_error # NoError
              /\ IsPrefix(loc.arg_msg, db.last_error)
              /\ db.maintenance = TRUE
              /\ db.maintenance_reason = db.last_error
              /\ db.fault = CLEAN_FAILURE
        /\ pc = "ceh_fail" => (db = node /\ CountKind(log, "process_event") = 0)

(* manual cleaning failed, tear-down raised, and the node went to fail *)
C10_Witness ==
    /\ op = "cleaning_error_handler"
    /\ pc = "done"
    /\ Raised(log, "tear_down_cleaning")
    /\ Has(log, Ev("process_event", MANAGEABLE, "ok"))
    /\ db.provision_state = CLEANFAIL
    /\ pre.maintenance = FALSE

(***************************************************************************)
(* Step validation                                                         *)
(***************************************************************************)
ValidatingOps == {"set_node_cleaning_steps", "validate_deploy_templates"}

(* the validating call is over and its loop ran on loc.user_steps *)
ValidationDone ==
    /\ pc = "done"
    /\ op \in ValidatingOps
    /\ op = "set_node_cleaning_steps" => loc.manual_clean

ValidationFailed == ValidationDone /\ result = "InvalidParameterValue"

(* C11: when step validation fails inside set_node_cleaning_steps (manual  *)
(* cleaning) or validate_deploy_templates, InvalidParameterValue is raised *)
(* before any node mutation: no save is made, and clean_step, the staged   *)
(* clean steps with their priority and abortable, clean_step_index and     *)
(* every other node field equal their values before the call.              *)
C11_FailedValidationLeavesNodeUntouched ==
    ValidationFailed =>
        /\ ~Has(log, SaveEv)
        /\ db = pre
        /\ node = pre

(* what does hold of a failed validation: nothing is saved, and only the   *)
(* staged clean step dictionaries of the node object differ                *)
C11_FailedValidationSavesNothing ==
    ValidationFailed =>
        /\ ~Has(log, SaveEv)
        /\ db = pre
        /\ [node EXCEPT !.driver_internal_info.clean_steps =
                            pre.driver_internal_info.clean_steps] = pre
        /\ op = "validate_deploy_templates" => node = pre

Unsupported(i) ==
    ~HasDriverStep(loc.driver_steps, step_id(loc.user_steps[i]))

StepCheckKinds == {"invalid arguments", "missing arguments", "core step"}

(* the unsupported user step at position i got one 'unsupported' error,    *)
(* no other check, and kept its dictionary                                 *)
UnsupportedHandled(i) ==
    /\ result = "InvalidParameterValue"
    /\ Cardinality({k \in 1..Len(loc.errors) :
           /\ loc.errors[k].kind = "unsupported"
           /\ loc.errors[k].step = loc.user_steps[i]})
       = Cardinality({j \in 1..Len(loc.user_steps) :
                         loc.user_steps[j] = loc.user_steps[i]})
    /\ \A k \in 1..Len(loc.errors) :
          loc.errors[k].kind \in StepCheckKinds =>
              step_id(loc.errors[k].step) # step_id(loc.user_steps[i])
    /\ loc.steps[i] = loc.user_steps[i]

(* C12: for either step type, a user step whose (step, interface) key is   *)
(* absent from the driver steps gets exactly one 'node does not support    *)
(* this step' error and no argument, priority or core-step check, the call *)
(* raises InvalidParameterValue, and that user step and the node state are *)
(* left unmutated.                                                         *)
C12_UnsupportedStepLeavesNodeUntouched ==
    ValidationDone =>
        \A i \in 1..Len(loc.user_steps) :
            Unsupported(i) =>
                /\ UnsupportedHandled(i)
                /\ db = pre
                /\ node = pre

(* the same without the node object: it holds *)
C12_UnsupportedStepRecordedOnce ==
    ValidationDone =>
        \A i \in 1..Len(loc.user_steps) :
            Unsupported(i) => UnsupportedHandled(i) /\ db = pre

(* the driver step the user step at position i was validated against *)
MatchedDriverStep(i) ==
    DriverStepOf(loc.driver_steps, step_id(loc.user_steps[i]))

(* C13: for step type clean, every user step that matches a driver step    *)
(* leaves validation with abortable and priority equal to the driver       *)
(* step's values (false and 0 when the driver step omits them), whatever   *)
(* the caller supplied, and with interface, step and args unchanged; a     *)
(* validation that succeeds stages and saves exactly these steps.          *)
C13_CleanStepTakesDriverValues ==
    (ValidationDone /\ loc.step_type = "clean") =>
        /\ Len(loc.steps) = Len(loc.user_steps)
        /\ \A i \in 1..Len(loc.user_steps) :
              ~Unsupported(i) =>
                  /\ loc.steps[i].abortable =
                         Get(MatchedDriverStep(i), "abortable", FALSE)
                  /\ loc.steps[i].priority =
                         Get(MatchedDriverStep(i), "priority", 0)
                  /\ DOMAIN loc.steps[i] =
                         DOMAIN loc.user_steps[i] \cup {"abortable", "priority"}
                  /\ \A k \in DOMAIN loc.user_steps[i] \ {"abortable", "priority"} :
                        loc.steps[i][k] = loc.user_steps[i][k]
        /\ node.driver_internal_info.clean_steps = loc.steps
        /\ result = "returned" => db.driver_internal_info.clean_steps = loc.steps

(* a manual cleaning was validated and saved in which the caller's         *)
(* priority 999 and abortable false gave way to the driver's 10 and true   *)
C13_Witness ==
    /\ ValidationDone /\ loc.step_type = "clean" /\ result = "returned"
    /\ \E i \in 1..Len(loc.user_steps) :
          /\ "priority" \in DOMAIN loc.user_steps[i]
          /\ loc.user_steps[i].priority = 999
          /\ loc.steps[i].priority = 10
          /\ loc.user_steps[i].abortable = FALSE
          /\ loc.steps[i].abortable = TRUE
          /\ "args" \in DOMAIN loc.steps[i]
    /\ db.driver_internal_info.clean_steps = loc.steps

(***************************************************************************)
(* Sorting and merging                                                     *)
(***************************************************************************)
(* the interface order the claim states: power first, raid last *)
InterfaceRank ==
    [power |-> 5, management |-> 4, deploy |-> 3, bios |-> 2, raid |-> 1]

(* a may stand before b in a sorted list *)
InOrder(a, b) ==
    \/ a.priority > b.priority
    \/ /\ a.priority = b.priority
       /\ InterfaceRank[a.interface] >= InterfaceRank[b.interface]

SameRank(a, b) ==
    a.priority = b.priority /\ a.interface = b.interface

(* the items of s that rank with x, in their order in s *)
RankedWith(s, x) ==
    LET same(y) == SameRank(x, y) IN SelectSeq(s, same)

IsStableSort(out, in) ==
    /\ Len(out) = Len(in)
    /\ \A x \in {in[i] : i \in 1..Len(in)} \cup {out[i] : i \in 1..Len(out)} :
          /\ Count(out, x) = Count(in, x)
          /\ RankedWith(out, x) = RankedWith(in, x)
    /\ \A i, j \in 1..Len(out) : i < j => InOrder(out[i], out[j])

(* C14: for every list of steps and both workflows, _sorted_steps returns  *)
(* a permutation of its input ordered by priority descending and, among    *)
(* equal priorities, by interface priority descending (power, management,  *)
(* deploy, bios, raid), and steps of equal priority and interface keep     *)
(* their input order.                                                      *)
C14_SortedStably ==
    (op = "_sorted_steps" /\ pc = "done") =>
        IsStableSort(loc.returned, loc.steps)

(* a list was reordered in which a priority tie is decided by the          *)
(* interface and two steps of the same priority and interface keep their   *)
(* order                                                                   *)
C14_Witness ==
    /\ op = "_sorted_steps" /\ pc = "done"
    /\ loc.returned # loc.steps
    /\ \E i, j \in 1..Len(loc.returned) :
          /\ i < j
          /\ loc.returned[i].priority = loc.returned[j].priority
          /\ InterfaceRank[loc.returned[i].interface]
                 > InterfaceRank[loc.returned[j].interface]
    /\ \E i, j \in 1..Len(loc.returned) :
          /\ i < j
          /\ SameRank(loc.returned[i], loc.returned[j])
          /\ loc.returned[i] # loc.returned[j]

StepKey(s) == <<s.interface, s.step>>

(* the deploy steps of the driver interfaces, disabled ones included *)
DriverDeploySteps == InterfaceSteps(env.driver, "get_deploy_steps", 1)

(* an enabled driver step that no template step names *)
KeptDriverStep(s) ==
    /\ s.priority > 0
    /\ \A i \in 1..Len(loc.user_steps) : StepKey(loc.user_steps[i]) # StepKey(s)

(* what the claim says the merged list holds, before sorting *)
ExpectedMerge ==
    SelectSeq(DriverDeploySteps, KeptDriverStep)
    \o SelectSeq(loc.user_steps, StepEnabled)

(* a step as a driver interface returns it: template steps carry 'args',  *)
(* lines 802-805, driver steps do not                                      *)
IsDriverForm(s) == "args" \notin DOMAIN s

MergeDone ==
    /\ op = "set_node_deployment_steps"
    /\ pc \in {"snds_save", "done"}
    /\ result # "KeyError"

(* C15: _get_all_deployment_steps returns exactly every enabled driver     *)
(* deploy step whose (interface, step) is not the key of any template      *)
(* step, plus every template step with priority > 0, sorted by the deploy  *)
(* key; a driver step that shares its key with a template step never       *)
(* appears in driver form, a priority-0 template step contributes nothing, *)
(* and no returned step has priority <= 0.                                 *)
C15_MergedDeploySteps ==
    MergeDone =>
        /\ IsStableSort(loc.returned, ExpectedMerge)
        /\ \A i \in 1..Len(loc.returned) :
              /\ loc.returned[i].priority > 0
              /\ IsDriverForm(loc.returned[i]) =>
                     \A k \in 1..Len(loc.user_steps) :
                         StepKey(loc.user_steps[k]) # StepKey(loc.returned[i])
        /\ node.driver_internal_info.deploy_steps = loc.returned

(* a priority-0 template step removed the enabled driver step of its key,  *)
(* an enabled template step is in the result and a driver step stayed      *)
C15_Witness ==
    /\ MergeDone /\ pc = "done"
    /\ \E i \in 1..Len(loc.user_steps), j \in 1..Len(DriverDeploySteps) :
          /\ loc.user_steps[i].priority = 0
          /\ DriverDeploySteps[j].priority > 0
          /\ StepKey(DriverDeploySteps[j]) = StepKey(loc.user_steps[i])
    /\ \E i \in 1..Len(loc.returned), j \in 1..Len(loc.user_steps) :
          loc.returned[i] = loc.user_steps[j]
    /\ \E i \in 1..Len(loc.returned), j \in 1..Len(DriverDeploySteps) :
          loc.returned[i] = DriverDeploySteps[j]
    /\ db.driver_internal_info.deploy_steps = loc.returned

(* the user steps of the validated list that have the key of step s *)
StepsWithKey(s) ==
    {i \in 1..Len(loc.user_steps) : StepKey(loc.user_steps[i]) = StepKey(s)}

(* the duplicate errors recorded for the key of step s *)
DuplicateErrors(s) ==
    {k \in 1..Len(loc.errors) :
        /\ loc.errors[k].kind = "duplicate"
        /\ StepKey(loc.errors[k].step) = StepKey(s)}

(* C16: deploy-type validation fails with a duplicate-step error whenever  *)
(* two or more user steps share the same (interface, step) pair, with      *)
(* exactly one duplicate error for each repeated pair and none for a pair  *)
(* that occurs once; clean-type validation makes no duplicate check.       *)
C16_OneErrorPerRepeatedPair ==
    ValidationDone =>
        IF loc.step_type = "deploy"
        THEN \A i \in 1..Len(loc.user_steps) :
                IF Cardinality(StepsWithKey(loc.user_steps[i])) > 1
                THEN /\ Cardinality(DuplicateErrors(loc.user_steps[i])) = 1
                     /\ result = "InvalidParameterValue"
                ELSE DuplicateErrors(loc.user_steps[i]) = {}
        ELSE CountErrors(loc.errors, "duplicate") = 0

(* two template steps with the same interface and step, each valid on its  *)
(* own, failed validation with the one duplicate error                     *)
C16_Witness ==
    /\ ValidationDone /\ loc.step_type = "deploy"
    /\ Len(loc.user_steps) = 2
    /\ StepKey(loc.user_steps[1]) = StepKey(loc.user_steps[2])
    /\ result = "InvalidParameterValue"
    /\ Len(loc.errors) = 1
    /\ loc.errors[1].kind = "duplicate"

(* the user step at position i names the core deploy step *)
NamesCoreStep(i) ==
    loc.user_steps[i].interface = "deploy" /\ loc.user_steps[i].step = "deploy"

(* the core-step errors recorded for the user step at position i *)
CoreErrorsFor(i) ==
    {k \in 1..Len(loc.errors) :
        /\ loc.errors[k].kind = "core step"
        /\ loc.errors[k].step = loc.user_steps[i]}

(* C17: in deploy-type validation a user step for the core step (interface *)
(* 'deploy', step 'deploy') is rejected with a core-step error iff its     *)
(* priority is > 0; priority 0 produces no core-step error and, absent     *)
(* other errors, is accepted.  No other step gets a core-step error.       *)
C17_CoreStepOnlyDisabled ==
    (ValidationDone /\ loc.step_type = "deploy") =>
        /\ \A i \in 1..Len(loc.user_steps) :
              IF NamesCoreStep(i) /\ ~Unsupported(i)
                 /\ loc.user_steps[i].priority > 0
              THEN /\ CoreErrorsFor(i) # {}
                   /\ result = "InvalidParameterValue"
              ELSE CoreErrorsFor(i) = {}
        /\ CountErrors(loc.errors, "core step")
               = Cardinality({i \in 1..Len(loc.user_steps) :
                                 /\ NamesCoreStep(i)
                                 /\ ~Unsupported(i)
                                 /\ loc.user_steps[i].priority > 0})
        /\ result = "returned" <=> loc.errors = <<>>

(* the core step at priority 0 was accepted beside another valid step *)
C17_Witness ==
    /\ ValidationDone /\ loc.step_type = "deploy"
    /\ result = "returned"
    /\ Len(loc.user_steps) = 2
    /\ \E i \in 1..2 :
          /\ NamesCoreStep(i)
          /\ loc.user_steps[i].priority = 0

(***************************************************************************)
(* Spawn-error hooks                                                       *)
(***************************************************************************)
SpawnHooks ==
    {"provisioning_error_handler", "power_state_error_handler"}
    \cup DOMAIN SpawnOperations

SpawnHookDone == pc = "done" /\ op \in SpawnHooks

(* C19: a spawn-failure handler changes and saves the node iff the         *)
(* exception is a no-free-worker error.  Then last_error is 'No free       *)
(* conductor workers available', provisioning_error_handler has set        *)
(* provision_state and target_provision_state, and                         *)
(* power_state_error_handler power_state, to the values the caller         *)
(* supplied, with target_power_state none; there is exactly one save and   *)
(* no power notification.  For any other exception the node is neither     *)
(* modified nor saved.                                                     *)
C19_SpawnFailureRestoresNode ==
    SpawnHookDone =>
        IF loc.exc = NoFreeConductorWorker
        THEN /\ log = <<SaveEv>>
             /\ db = node
             /\ node.last_error = NoFreeWorkersMsg
             /\ op = "provisioning_error_handler" =>
                    node = [pre EXCEPT
                               !.provision_state = loc.provision_state,
                               !.target_provision_state =
                                   loc.target_provision_state,
                               !.last_error = NoFreeWorkersMsg]
             /\ op = "power_state_error_handler" =>
                    node = [pre EXCEPT
                               !.power_state = loc.power_state,
                               !.target_power_state = NOSTATE,
                               !.last_error = NoFreeWorkersMsg]
        ELSE log = <<>> /\ node = pre /\ db = pre

(* provisioning_error_handler, told that no worker was free, put a node    *)
(* that had moved to another provision state back and saved it             *)
C19_Witness ==
    /\ SpawnHookDone
    /\ op = "provisioning_error_handler"
    /\ loc.exc = NoFreeConductorWorker
    /\ pre.provision_state # loc.provision_state
    /\ pre.target_provision_state # loc.target_provision_state
    /\ db.provision_state = loc.provision_state
    /\ db.target_provision_state = loc.target_provision_state
    /\ db.last_error = NoFreeWorkersMsg

(***************************************************************************)
(* Boot device and boot mode                                               *)
(***************************************************************************)
BootOps == {"node_set_boot_device", "node_set_boot_mode"}

ValidatedOk(l) == Has(l, Ev("validate", "management", "ok"))

(* C20: for a node whose provision state is ADOPTING, neither              *)
(* node_set_boot_device nor node_set_boot_mode ever invokes the management *)
(* driver's set_boot_device or set_boot_mode; for every other provision    *)
(* state node_set_boot_device calls set_boot_device exactly once, and only *)
(* after management validation succeeded (not at all when validation or    *)
(* the lock check raised).                                                 *)
C20_AdoptingNodeBootUntouched ==
    /\ (op \in BootOps /\ node.provision_state = ADOPTING) =>
           /\ CountKind(log, "set_boot_device") = 0
           /\ CountKind(log, "set_boot_mode") = 0
    /\ (op = "node_set_boot_device" /\ node.provision_state # ADOPTING) =>
           /\ \A i \in 1..Len(log) :
                 log[i][1] = "set_boot_device" =>
                     /\ ValidatedOk(SubSeq(log, 1, i - 1))
                     /\ log[i][2] = loc.device[1]
           /\ pc = "done" =>
                  CountKind(log, "set_boot_device")
                      = IF ValidatedOk(log) THEN 1 ELSE 0

(* node_set_boot_device returned for an ADOPTING node: the management      *)
(* interface was validated and the boot device was not set                 *)
C20_Witness ==
    /\ op = "node_set_boot_device" /\ pc = "done"
    /\ node.provision_state = ADOPTING
    /\ result = "returned"
    /\ log = <<Ev("validate", "management", "ok")>>

(* the driver power calls of the running call, in order *)
PowerCalls == SelectSeq(log, LAMBDA e : e[1] \in PowerCallKinds)

(* the body of node_power_action ran (the lock check passed) and is over *)
PowerActionOver == TopPowerAction /\ pc = "done" /\ log # <<>>

(* C21: node_power_action returns without a driver power call exactly when *)
(* the request is POWER_ON, POWER_OFF or SOFT_POWER_OFF and the observed   *)
(* state is the semantic target; every other call in which neither the     *)
(* state read nor the volume attach raised issues exactly one driver power *)
(* call, reboot for REBOOT and set_power_state with the requested state    *)
(* otherwise; the state is not read for the other requests.                *)
C21_OnePowerCallUnlessAlreadyThere ==
    /\ TopPowerAction => Len(PowerCalls) <= 1
    /\ (TopPowerAction /\ loc.new_state \notin SkippableRequests) =>
           "get_power_state" \notin Kinds(log)
    /\ PowerActionOver =>
           /\ (result = "returned" /\ PowerCalls = <<>>) <=> C2_ObservedIsTarget
           /\ (/\ ~C2_ObservedIsTarget
               /\ ~Raised(log, "get_power_state")
               /\ ~Raised(log, "attach_volumes")) =>
                  /\ Len(PowerCalls) = 1
                  /\ PowerCalls[1][1] =
                         (IF loc.new_state = REBOOT THEN "reboot"
                          ELSE "set_power_state")
                  /\ loc.new_state # REBOOT => PowerCalls[1][2] = loc.new_state

(* a power-on request on a node whose driver reports ERROR went to the     *)
(* driver                                                                  *)
C21_Witness ==
    /\ PowerActionOver
    /\ result = "returned"
    /\ loc.new_state = POWER_ON
    /\ Has(log, Ev("get_power_state", "", ERROR))
    /\ PowerCalls = <<Ev("set_power_state", POWER_ON, "ok")>>

(* the driver power call of the running node_power_action succeeded *)
PowerCallSucceeded ==
    TopPowerAction /\ PowerCalls # <<>> /\ PowerCalls[1][3] = "ok"

(* C22: when the driver power call succeeds, the node is saved with        *)
(* power_state equal to the computed target (POWER_ON for POWER_ON, REBOOT *)
(* and SOFT_REBOOT, POWER_OFF for POWER_OFF and SOFT_POWER_OFF, none for   *)
(* any other request) and target_power_state none, then exactly one END    *)
(* notification is emitted, and the call sets no last_error: last_error is *)
(* none or what it was before the call.                                    *)
C22_SuccessSavedThenEnd ==
    PowerCallSucceeded =>
        /\ Count(log, NotifyError) = 0
        /\ pc \in {"npa_ok_save", "npa_ok_notify", "npa_detach", "done"}
        /\ pc = "npa_ok_save" => Count(log, NotifyEnd) = 0
        /\ pc = "npa_ok_notify" =>
               /\ Last(log) = SaveEv
               /\ Count(log, NotifyEnd) = 0
        /\ pc \in {"npa_ok_notify", "npa_detach", "done"} =>
               /\ db = node
               /\ db.power_state = calculate_target_state(loc.new_state)
               /\ db.power_state =
                      (IF loc.new_state \in {POWER_ON, REBOOT, SOFT_REBOOT}
                       THEN POWER_ON
                       ELSE IF loc.new_state \in {POWER_OFF, SOFT_POWER_OFF}
                       THEN POWER_OFF ELSE None)
               /\ db.target_power_state = NOSTATE
               /\ db.last_error \in {NoError, pre.last_error}
        /\ pc \in {"npa_detach", "done"} =>
               /\ Count(log, NotifyEnd) = 1
               /\ \E i \in 1..(Len(log) - 2) :
                     /\ log[i] = PowerCalls[1]
                     /\ log[i + 1] = SaveEv
                     /\ log[i + 2] = NotifyEnd

(* a soft reboot of a powered-off node with an earlier error succeeded *)
C22_Witness ==
    /\ PowerCallSucceeded
    /\ pc = "done"
    /\ loc.new_state = SOFT_REBOOT
    /\ pre.power_state = POWER_OFF
    /\ pre.last_error # NoError
    /\ db.power_state = POWER_ON
    /\ Last(log) = NotifyEnd

(* the running node_power_action was not skipped and has not reached the   *)
(* end of the driver call yet                                              *)
BeforePowerCall == TopPowerAction /\ pc \in {"npa_attach", "npa_power"}

(* C23: in a node_power_action that is not skipped, the node is saved      *)
(* before the driver call, with last_error cleared, iff its                *)
(* target_power_state differs from the computed target; when they are      *)
(* equal nothing is saved before the driver call and last_error keeps its  *)
(* value.                                                                  *)
C23_TargetSavedOnlyWhenNew ==
    BeforePowerCall =>
        LET target_state == calculate_target_state(loc.new_state) IN
        /\ Has(log, SaveEv) <=> pre.target_power_state # target_state
        /\ pre.target_power_state # target_state =>
               /\ Count(log, SaveEv) = 1
               /\ db = node
               /\ db = [pre EXCEPT !.target_power_state = target_state,
                                   !.last_error = NoError]
        /\ pre.target_power_state = target_state =>
               /\ db = pre
               /\ node = pre

(* a repeated power-on request: the record already has target POWER_ON and *)
(* an earlier error, and the driver call is about to be made               *)
C23_Witness ==
    /\ BeforePowerCall
    /\ pc = "npa_power"
    /\ loc.new_state = POWER_ON
    /\ pre.target_power_state = POWER_ON
    /\ pre.last_error # NoError
    /\ node.last_error = pre.last_error
    /\ ~Has(log, SaveEv)

(* the positions of the calls of one kind in the log *)
Positions(kind) == {i \in 1..Len(log) : log[i][1] = kind}

(* C24: in a node_power_action that is not skipped, attach_volumes is      *)
(* called iff the computed target is POWER_ON and the node is ACTIVE (so    *)
(* for REBOOT and SOFT_REBOOT too), exactly once and before the driver's   *)
(* set_power_state or reboot; it is never called for target POWER_OFF or   *)
(* none, nor for a node that is not ACTIVE.                                *)
C24_AttachBeforePowerOnActive ==
    TopPowerAction =>
        LET attaches == Positions("attach_volumes")
            wanted == /\ calculate_target_state(loc.new_state) = POWER_ON
                      /\ pre.provision_state = ACTIVE
        IN
        /\ Cardinality(attaches) <= 1
        /\ attaches # {} => wanted
        /\ (pc = "npa_power" \/ PowerCalls # <<>>) =>
               (Cardinality(attaches) = 1 <=> wanted)
        /\ \A i \in attaches :
              \A j \in Positions("set_power_state") \cup Positions("reboot") :
                  i < j

(* a reboot of an ACTIVE node: volumes attached, then the driver rebooted *)
C24_Witness ==
    /\ TopPowerAction
    /\ loc.new_state = REBOOT
    /\ pre.provision_state = ACTIVE
    /\ \E i \in 1..(Len(log) - 1) :
          /\ log[i] = Ev("attach_volumes", "", "ok")
          /\ log[i + 1] = Ev("reboot", "", "ok")

(* a power-off of an ACTIVE node went through the driver and the call is   *)
(* over                                                                    *)
PoweredOffActive ==
    /\ PowerCallSucceeded
    /\ pc = "done"
    /\ calculate_target_state(loc.new_state) = POWER_OFF
    /\ pre.provision_state = ACTIVE

(* what holds of detach_volumes whatever it does: one call, the last of    *)
(* the call, after the save and the END notification, node fields as saved *)
DetachedLast ==
    /\ CountKind(log, "detach_volumes") = 1
    /\ Last(log)[1] = "detach_volumes"
    /\ log[Len(log) - 1] = NotifyEnd
    /\ log[Len(log) - 2] = SaveEv
    /\ db = node
    /\ db.power_state = POWER_OFF
    /\ db.target_power_state = NOSTATE
    /\ db.last_error \in {NoError, pre.last_error}

(* C25: after a successful transition to POWER_OFF on an ACTIVE node,      *)
(* detach_volumes is called exactly once, after the save and the END       *)
(* notification, and a failure of detach_volumes, whatever the exception,  *)
(* does not make node_power_action fail and changes no node field.         *)
C25_DetachFailureNeverFatal ==
    PoweredOffActive => (DetachedLast /\ result = "returned")

(* C25, the part the code does: the detach call is made once and last, no  *)
(* node field changes, and a StorageError of detach_volumes is swallowed.  *)
C25_DetachStorageErrorSwallowed ==
    PoweredOffActive =>
        /\ DetachedLast
        /\ Last(log)[3] \in {"ok", "StorageError"} <=> result = "returned"
        /\ result # "returned" => result = Last(log)[3]

(* get_power_state raised in the skip check of the running call *)
StateReadRaised == TopPowerAction /\ Raised(log, "get_power_state")

(* C26: when get_power_state raises during the skip check, the node is     *)
(* saved with target_power_state none and last_error set to a failure      *)
(* message, one ERROR notification follows the save, the same exception is *)
(* re-raised, and attach_volumes, set_power_state and reboot are never     *)
(* called: the outcome of a failed driver power call.                      *)
C26_StateReadFailureRecorded ==
    StateReadRaised =>
        /\ Kinds(log) \cap (PowerCallKinds \cup VolumeKinds) = {}
        /\ pc \in {"npa_skip_err_save", "npa_skip_err_notify", "done"}
        /\ Count(log, NotifyEnd) = 0
        /\ pc = "npa_skip_err_save" => Count(log, NotifyError) = 0
        /\ pc = "done" =>
              /\ result = Last(SelectSeq(log,
                                   LAMBDA e : e[1] = "get_power_state"))[3]
              /\ db = node
              /\ db.target_power_state = NOSTATE
              /\ db.last_error =
                    <<"Failed to change power state to", loc.new_state,
                      "Error", result>>
              /\ db.power_state = pre.power_state
              /\ Count(log, NotifyError) = 1
              /\ Last(log) = NotifyError
              /\ log[Len(log) - 1] = SaveEv

(* a power-off request on a record that still carried a target: the state  *)
(* read raised and the call re-raised                                      *)
C26_Witness ==
    /\ StateReadRaised
    /\ pc = "done"
    /\ loc.new_state = POWER_OFF
    /\ pre.target_power_state = POWER_ON
    /\ pre.last_error = NoError
    /\ result = "IronicException"
    /\ db.last_error # NoError

(* the operations that run the body of cleaning_error_handler *)
CleaningOps ==
    {"cleaning_error_handler", "cleanup_cleanwait_timeout",
     "abort_on_conductor_take_over"}

(* C27: cleaning_error_handler triggers process_event('fail') iff          *)
(* set_fail_state is true and the node's provision state is not CLEANFAIL, *)
(* at most once per call and only after the node was saved, with           *)
(* target_state MANAGEABLE iff the node's target_provision_state was       *)
(* MANAGEABLE (manual cleaning) and none otherwise.                        *)
C27_FailEventAfterSave ==
    op \in CleaningOps =>
        LET events == Positions("process_event") IN
        /\ Cardinality(events) <= 1
        /\ \A i \in events :
              /\ loc.set_fail_state
              /\ pre.provision_state # CLEANFAIL
              /\ \E j \in 1..(i - 1) : log[j] = SaveEv
              /\ log[i][2] = (IF pre.target_provision_state = MANAGEABLE
                              THEN MANAGEABLE ELSE None)
        /\ (pc = "done" /\ Has(log, SaveEv)) =>
              (events # {} <=>
                   (loc.set_fail_state /\ pre.provision_state # CLEANFAIL))

(* a failed manual clean step: the node was saved, then moved to CLEANFAIL *)
(* with target MANAGEABLE                                                  *)
C27_Witness ==
    /\ op = "cleaning_error_handler"
    /\ pc = "done"
    /\ loc.set_fail_state
    /\ pre.provision_state = CLEANWAIT
    /\ pre.target_provision_state = MANAGEABLE
    /\ Last(log) = Ev("process_event", MANAGEABLE, "ok")
    /\ log[Len(log) - 1] = SaveEv
    /\ db.provision_state = CLEANFAIL

(* the body of rescuing_error_handler runs: called directly, or from       *)
(* cleanup_rescuewait_timeout once its lock check passed                   *)
RescueHandlerRuns ==
    \/ op = "rescuing_error_handler"
    \/ op = "cleanup_rescuewait_timeout" /\ ~task.shared

(* the nested node_power_action(POWER_OFF) raised *)
PowerOffRaised ==
    \/ task.shared
    \/ \E i \in 1..Len(log) :
          /\ log[i][1] \in {"get_power_state", "set_power_state",
                            "attach_volumes", "detach_volumes"}
          /\ log[i][3] \in AllExceptions
          /\ ~(log[i][1] = "detach_volumes" /\ DetachSwallowed(log[i][3]))

(* the position of the last power-set notification: once the power action  *)
(* is over, the saves after it are the handler's own                       *)
LastNotify ==
    IF Positions("notify") = {} THEN 0
    ELSE CHOOSE i \in Positions("notify") :
             \A j \in Positions("notify") : j <= i

HandlerSaves ==
    IF pc \in NpaPcs THEN {}
    ELSE {i \in Positions("save") : i > LastNotify}

(* C28: rescuing_error_handler calls node_power_action(POWER_OFF) before   *)
(* rescue.clean_up and does not call rescue.clean_up when the power-off    *)
(* raised; on every path it saves the node exactly once with last_error    *)
(* set and propagates no exception of the power-off or the cleanup; with   *)
(* set_fail_state it then triggers process_event('fail') exactly once,     *)
(* swallowing InvalidState, and without set_fail_state it triggers no      *)
(* transition.                                                             *)
C28_RescueFailureAlwaysSaved ==
    RescueHandlerRuns =>
        LET cleanups == Positions("clean_up")
            events == Positions("process_event")
        IN
        /\ Cardinality(cleanups) <= 1
        /\ \A i \in cleanups :
              /\ ~PowerOffRaised
              /\ i > LastNotify
              /\ LastNotify > 0
              /\ \A j \in HandlerSaves : i < j
        /\ Cardinality(HandlerSaves) <= 1
        /\ \A i \in events :
              /\ loc.set_fail_state
              /\ \E j \in HandlerSaves : j < i
        /\ pc \in {"resc_fail", "done"} =>
              /\ Cardinality(HandlerSaves) = 1
              /\ db.last_error # NoError
              /\ (cleanups = {} <=> PowerOffRaised)
              /\ db.last_error =
                    (IF \E i \in cleanups : log[i][3] = "ok"
                     THEN loc.arg_msg
                     ELSE RescueCleanupFailedMsg(loc.exc))
        /\ pc = "resc_fail" => (db = node /\ Last(log) = SaveEv)
        /\ pc = "done" =>
              /\ result = "returned"
              /\ Cardinality(events) = (IF loc.set_fail_state THEN 1 ELSE 0)

(* the power-off raised on a node with no 'fail' transition: no cleanup,   *)
(* one save of the handler, InvalidState swallowed                         *)
C28_Witness ==
    /\ op = "rescuing_error_handler"
    /\ pc = "done"
    /\ ~task.shared
    /\ PowerOffRaised
    /\ Positions("clean_up") = {}
    /\ Last(log) = Ev("process_event", None, "InvalidState")
    /\ result = "returned"
    /\ db.last_error = RescueCleanupFailedMsg("Exception")

(* the operations that run the body of deploying_error_handler *)
DeployingOps == {"deploying_error_handler", "cleanup_after_timeout"}

(* C29: deploying_error_handler saves the node with last_error equal to    *)
(* the user message before it invokes deploy.clean_up, so the persisted    *)
(* node carries the failure message from the moment cleanup starts, also   *)
(* when clean_up raises or never completes; the second save and the 'fail' *)
(* transition happen only after clean_up finished or raised.               *)
C29_FailureSavedBeforeCleanUp ==
    op \in DeployingOps =>
        LET cleanups == Positions("clean_up")
            saves == Positions("save")
            events == Positions("process_event")
        IN
        /\ Cardinality(cleanups) <= 1
        /\ Cardinality(saves) <= 2
        /\ pc = "deh_clean_up" =>
              /\ log = <<SaveEv>>
              /\ db = [pre EXCEPT !.last_error = loc.arg_msg]
        /\ \A i \in cleanups :
              /\ log[1] = SaveEv
              /\ i = 2
              /\ \A j \in (saves \ {1}) \cup events : i < j
        /\ (loc.clean_up /\ (Cardinality(saves) = 2 \/ events # {})) =>
              cleanups # {}
        /\ (pc = "deh_refresh" /\ cleanups # {}) =>
              db.last_error = loc.arg_msg

(* deploy.clean_up raised: the record already held the caller's message    *)
(* and nothing else of the handler has run yet                             *)
C29_Witness ==
    /\ op = "deploying_error_handler"
    /\ pc = "deh_refresh"
    /\ log = <<SaveEv, Ev("clean_up", "deploy", "Exception")>>
    /\ pre.last_error # loc.arg_msg
    /\ db.last_error = loc.arg_msg

(* C30: deploying_error_handler reloads the node from storage after the    *)
(* cleanup and before its final save, so a field persisted by another      *)
(* writer between the first save and the reload is not overwritten: the    *)
(* final save changes only deploy_step, deploy_step_index and last_error   *)
(* relative to the reloaded record.                                        *)
C30_FinalSaveKeepsConcurrentUpdate ==
    [][(op \in DeployingOps /\ pc = "deh_save_again") =>
           /\ Last(log) = Ev("refresh", "node", "ok")
           /\ Count(log, SaveEv) = 1
           /\ loc.clean_up => log[Len(log) - 1][1] = "clean_up"
           /\ node = db
           /\ db' = [db EXCEPT
                       !.deploy_step = db'.deploy_step,
                       !.driver_internal_info.deploy_step_index =
                           db'.driver_internal_info.deploy_step_index,
                       !.last_error = db'.last_error]
           /\ Count(log', SaveEv) = 2]_vars

(* the provision state another writer persisted while the cleanup ran is   *)
(* in the record after the handler's final save                            *)
C30_Witness ==
    /\ op = "deploying_error_handler"
    /\ pc = "deh_fail"
    /\ Count(log, SaveEv) = 2
    /\ Raised(log, "clean_up")
    /\ pre.provision_state = DEPLOYWAIT
    /\ db.provision_state = DEPLOYING
    /\ db.last_error = loc.cleanup_err
    /\ db.deploy_step = EmptyStep

CleaningStates == {CLEANING, CLEANWAIT, CLEANFAIL}
DeployingStates == {DEPLOYING, DEPLOYWAIT, DEPLOYFAIL}

(* the save of cleaning_error_handler (line 442) has been made *)
CleaningHandlerSaved ==
    /\ op \in CleaningOps
    /\ pc \in {"ceh_fail", "done"}
    /\ op = "abort_on_conductor_take_over" =>
           (~task.shared /\ pre.provision_state = CLEANFAIL)

(* the final save of deploying_error_handler (line 494) was just made *)
DeployingHandlerSaved ==
    op \in DeployingOps /\ pc = "deh_fail"

StepLists(n) ==
    <<n.driver_internal_info.clean_steps, n.driver_internal_info.deploy_steps>>

CleanCursor(n) ==
    <<n.clean_step, n.driver_internal_info.clean_step_index,
      n.driver_internal_info.cleaning_reboot>>

DeployCursor(n) ==
    <<n.deploy_step, n.driver_internal_info.deploy_step_index>>

(* C31: cleaning_error_handler empties clean_step and removes              *)
(* clean_step_index and cleaning_reboot iff the provision state is         *)
(* CLEANING, CLEANWAIT or CLEANFAIL; deploying_error_handler empties       *)
(* deploy_step and removes deploy_step_index iff the reloaded provision    *)
(* state is DEPLOYING, DEPLOYWAIT or DEPLOYFAIL; in any other state those  *)
(* fields are unchanged, and neither handler removes the clean_steps or    *)
(* deploy_steps list.                                                      *)
C31_CursorClearedOnlyInWorkflow ==
    /\ CleaningHandlerSaved =>
          /\ CleanCursor(db) =
                 (IF pre.provision_state \in CleaningStates
                  THEN <<EmptyStep, Absent, Absent>> ELSE CleanCursor(pre))
          /\ DeployCursor(db) = DeployCursor(pre)
    /\ DeployingHandlerSaved =>
          /\ DeployCursor(db) =
                 (IF db.provision_state \in DeployingStates
                  THEN <<EmptyStep, Absent>> ELSE DeployCursor(pre))
          /\ CleanCursor(db) = CleanCursor(pre)
    /\ op \in CleaningOps \cup DeployingOps =>
          (StepLists(db) = StepLists(pre) /\ StepLists(node) = StepLists(pre))

(* the deployment was over when the handler reloaded the node: the cursor  *)
(* the failed deployment had left is kept                                  *)
C31_Witness ==
    /\ DeployingHandlerSaved
    /\ pre.provision_state = DEPLOYWAIT
    /\ db.provision_state = ACTIVE
    /\ DeployCursor(db) = <<"deploy", "0">>
    /\ StepLists(db) = <<(<<EraseDevices>>), (<<CoreDeploy>>)>>
    /\ Count(log, SaveEv) = 2

(* the handlers that run after the provision-state machine moved the node *)
AfterFailOps ==
    {"cleanup_cleanwait_timeout", "cleanup_rescuewait_timeout",
     "abort_on_conductor_take_over"}

(* C32: cleanup_cleanwait_timeout, cleanup_rescuewait_timeout and          *)
(* abort_on_conductor_take_over never trigger process_event('fail'), in    *)
(* any node state and for any driver outcome: the provision state stays,   *)
(* and a call that returns has recorded last_error and saved.              *)
C32_TimeoutHandlersNeverFail ==
    op \in AfterFailOps =>
        /\ "process_event" \notin Kinds(log)
        /\ node.provision_state = pre.provision_state
        /\ db.provision_state = pre.provision_state
        /\ (pc = "done" /\ result = "returned") =>
              /\ db = node
              /\ db.last_error # NoError
              /\ Has(log, SaveEv)

(* a rescue timeout on a node still in RESCUEWAIT whose cleanup raised:    *)
(* the error is recorded and the node is not moved                         *)
C32_Witness ==
    /\ op = "cleanup_rescuewait_timeout"
    /\ pc = "done"
    /\ result = "returned"
    /\ pre.provision_state = RESCUEWAIT
    /\ Raised(log, "clean_up")
    /\ db.provision_state = RESCUEWAIT
    /\ Last(log) = SaveEv

(* abort_on_conductor_take_over ran with the exclusive lock and is over *)
AbortOver ==
    op = "abort_on_conductor_take_over" /\ pc = "done" /\ ~task.shared

(* C33: abort_on_conductor_take_over on a node in CLEANFAIL applies the    *)
(* full cleaning failure handling (last_error, maintenance with reason,    *)
(* fault CLEAN_FAILURE, clean_step cleared, saved); in any other provision *)
(* state it sets only last_error to the take-over message and saves:       *)
(* maintenance, maintenance_reason, fault, clean_step, deploy_step,        *)
(* driver_internal_info and the provision state are unchanged and no       *)
(* driver is called.                                                       *)
C33_TakeOverAbort ==
    AbortOver =>
        /\ result = "returned"
        /\ db = node
        /\ Count(log, SaveEv) = 1
        /\ db.provision_state = pre.provision_state
        /\ IF pre.provision_state = CLEANFAIL
           THEN /\ db.last_error \in
                       {TakeOverMsg, TearDownFailedMsg(TakeOverMsg)}
                /\ db.last_error = TakeOverMsg <=>
                       ~Raised(log, "tear_down_cleaning")
                /\ db.maintenance
                /\ db.maintenance_reason = db.last_error
                /\ db.fault = CLEAN_FAILURE
                /\ CleanCursor(db) = <<EmptyStep, Absent, Absent>>
                /\ Last(log) = SaveEv
           ELSE /\ db = [pre EXCEPT !.last_error = TakeOverMsg]
                /\ log = <<SaveEv>>

(* a take-over of a node in DEPLOYWAIT that carries cursors: only the      *)
(* message is recorded                                                     *)
C33_Witness ==
    /\ AbortOver
    /\ pre.provision_state = DEPLOYWAIT
    /\ pre.clean_step = "erase_devices"
    /\ pre.last_error # NoError
    /\ db.last_error = TakeOverMsg
    /\ db.clean_step = "erase_devices"
    /\ ~db.maintenance

(***************************************************************************)
(* Staging of clean and deploy steps                                       *)
(***************************************************************************)
(* the clean steps of the interfaces the driver has, disabled ones too *)
DriverCleanSteps == InterfaceSteps(env.driver, "get_clean_steps", 1)

CleaningStepsSet ==
    op = "set_node_cleaning_steps" /\ pc = "done" /\ result = "returned"

(* the staged step as the caller wrote it, apart from the two keys that    *)
(* validation takes from the driver                                        *)
SameUserStep(stored, staged) ==
    /\ DOMAIN stored = DOMAIN staged \cup {"abortable", "priority"}
    /\ \A k \in DOMAIN staged \ {"abortable", "priority"} :
          stored[k] = staged[k]

(* C34: set_node_cleaning_steps chooses by the target provision state.     *)
(* Not MANAGEABLE (automated): the stored clean_steps are exactly the      *)
(* driver clean steps with priority > 0 of the interfaces the node has, in *)
(* sorted order.  MANAGEABLE (manual): the stored clean_steps are the      *)
(* caller-staged steps, in the caller's order, validated against all       *)
(* driver clean steps, enabled and disabled.  On success in both cases     *)
(* clean_step is empty, clean_step_index is none and the node was saved    *)
(* exactly once, after these updates.                                      *)
C34_CleaningStepsStaged ==
    CleaningStepsSet =>
        LET stored == db.driver_internal_info.clean_steps
            staged == pre.driver_internal_info.clean_steps
        IN
        /\ Count(log, SaveEv) = 1
        /\ Last(log) = SaveEv
        /\ db = node
        /\ db.clean_step = EmptyStep
        /\ db.driver_internal_info.clean_step_index = None
        /\ db = [pre EXCEPT !.clean_step = EmptyStep,
                            !.driver_internal_info.clean_step_index = None,
                            !.driver_internal_info.clean_steps = stored]
        /\ IF pre.target_provision_state # MANAGEABLE
           THEN IsStableSort(stored, SelectSeq(DriverCleanSteps, StepEnabled))
           ELSE /\ loc.errors = <<>>
                /\ Len(stored) = Len(staged)
                /\ \A i \in 1..Len(staged) :
                      /\ SameUserStep(stored[i], staged[i])
                      /\ \E j \in 1..Len(DriverCleanSteps) :
                            step_id(DriverCleanSteps[j]) = step_id(staged[i])

(* a manual cleaning was staged whose first step is disabled in the driver *)
(* and whose second is enabled: the caller's order, not the sorted one     *)
C34_Witness ==
    /\ CleaningStepsSet
    /\ pre.target_provision_state = MANAGEABLE
    /\ Len(db.driver_internal_info.clean_steps) = 2
    /\ db.driver_internal_info.clean_steps[1].priority = 0
    /\ db.driver_internal_info.clean_steps[2].priority = 10
    /\ db.driver_internal_info.clean_steps[1].step = "delete_configuration"

DeploymentStepsOver == op = "set_node_deployment_steps" /\ pc = "done"

(* C35: after set_node_deployment_steps succeeds,                          *)
(* driver_internal_info['deploy_steps'] is exactly the merged list of      *)
(* _get_all_deployment_steps (sorted, only steps with priority > 0),       *)
(* deploy_step is empty, deploy_step_index is none and the node was saved  *)
(* exactly once with these values; if step discovery raises, nothing is    *)
(* saved and the previous deploy_steps, deploy_step and deploy_step_index  *)
(* remain.                                                                 *)
C35_DeploymentStepsStaged ==
    /\ (op = "set_node_deployment_steps" /\ pc # "done") => db = pre
    /\ DeploymentStepsOver =>
          IF result = "returned"
          THEN LET stored == db.driver_internal_info.deploy_steps IN
               /\ Count(log, SaveEv) = 1
               /\ Last(log) = SaveEv
               /\ db = node
               /\ stored = loc.returned
               /\ IsStableSort(stored, ExpectedMerge)
               /\ \A i \in 1..Len(stored) : stored[i].priority > 0
               /\ db = [pre EXCEPT
                           !.deploy_step = EmptyStep,
                           !.driver_internal_info.deploy_step_index = None,
                           !.driver_internal_info.deploy_steps = stored]
          ELSE /\ ~Has(log, SaveEv)
               /\ db = pre
               /\ node = pre

(* a redeployment staged a template step beside a driver step, replacing   *)
(* the list and the cursor of the earlier deployment                       *)
C35_Witness ==
    /\ DeploymentStepsOver
    /\ result = "returned"
    /\ pre.deploy_step = "deploy"
    /\ pre.driver_internal_info.deploy_steps = <<CoreDeploy>>
    /\ Len(db.driver_internal_info.deploy_steps) = 3
    /\ \E i \in 1..3 : ~IsDriverForm(db.driver_internal_info.deploy_steps[i])
    /\ \E i \in 1..3 : IsDriverForm(db.driver_internal_info.deploy_steps[i])
    /\ db.deploy_step = EmptyStep

(***************************************************************************)
(* Argument checks and the aggregated error                                *)
(***************************************************************************)
(* the errors of one kind recorded for the user step at position i *)
ErrorsFor(i, kind) ==
    {k \in 1..Len(loc.errors) :
        /\ loc.errors[k].kind = kind
        /\ loc.errors[k].step = loc.user_steps[i]}

(* the argument names the user step at position i gives *)
GivenArgs(i) ==
    IF "args" \in DOMAIN loc.user_steps[i]
    THEN DOMAIN loc.user_steps[i].args ELSE {}

(* the argument names the matched driver step declares, and the required   *)
(* ones among them                                                         *)
DeclaredArgs(i) ==
    IF "argsinfo" \in DOMAIN MatchedDriverStep(i)
    THEN DOMAIN MatchedDriverStep(i).argsinfo ELSE {}

RequiredArgs(i) ==
    {a \in DeclaredArgs(i) :
        /\ "required" \in DOMAIN MatchedDriverStep(i).argsinfo[a]
        /\ MatchedDriverStep(i).argsinfo[a].required}

(* C36: in _validate_user_step a required argument of the driver step      *)
(* that the user's args lack is an error iff the step type is clean or the *)
(* user step's priority is > 0; a deploy user step with priority 0 is      *)
(* accepted without its required arguments; an argument name that the      *)
(* driver's argsinfo does not declare is an error for every step type and  *)
(* priority.                                                               *)
C36_RequiredArgsOnlyWhenEnabled ==
    ValidationDone =>
        \A i \in 1..Len(loc.user_steps) :
            ~Unsupported(i) =>
                /\ ErrorsFor(i, "missing arguments") # {} <=>
                      /\ RequiredArgs(i) \ GivenArgs(i) # {}
                      /\ \/ loc.step_type = "clean"
                         \/ loc.user_steps[i].priority > 0
                /\ ErrorsFor(i, "invalid arguments") # {} <=>
                      GivenArgs(i) \ DeclaredArgs(i) # {}
                /\ \A k \in ErrorsFor(i, "missing arguments") :
                      loc.errors[k].detail = RequiredArgs(i) \ GivenArgs(i)
                /\ \A k \in ErrorsFor(i, "invalid arguments") :
                      loc.errors[k].detail = GivenArgs(i) \ DeclaredArgs(i)

(* a disabling template step without its required argument was accepted *)
C36_Witness ==
    /\ ValidationDone
    /\ loc.step_type = "deploy"
    /\ result = "returned"
    /\ \E i \in 1..Len(loc.user_steps) :
          /\ ~Unsupported(i)
          /\ loc.user_steps[i].priority = 0
          /\ RequiredArgs(i) \ GivenArgs(i) # {}

PerStepKinds ==
    {"unsupported", "invalid arguments", "missing arguments", "core step"}

(* the user step at position i has the fault that an error of this kind    *)
(* reports                                                                 *)
Faulty(i, kind) ==
    IF Unsupported(i) THEN kind = "unsupported"
    ELSE \/ kind = "invalid arguments" /\ GivenArgs(i) \ DeclaredArgs(i) # {}
         \/ /\ kind = "missing arguments"
            /\ RequiredArgs(i) \ GivenArgs(i) # {}
            /\ (loc.step_type = "clean" \/ loc.user_steps[i].priority > 0)
         \/ /\ kind = "core step"
            /\ loc.step_type = "deploy"
            /\ NamesCoreStep(i)
            /\ loc.user_steps[i].priority > 0

(* the (interface, step) pairs that more than one user step has *)
RepeatedKeys ==
    {StepKey(loc.user_steps[i]) :
        i \in {j \in 1..Len(loc.user_steps) :
                  Cardinality(StepsWithKey(loc.user_steps[j])) > 1}}

(* C37: _validate_user_steps examines every user step, also after an       *)
(* earlier step produced an error, and raises once, after all steps and    *)
(* for deploy the duplicate check, a single InvalidParameterValue that     *)
(* carries every error found; it returns normally iff no error was found,  *)
(* and then returns the user steps in their original order and number.     *)
C37_AllErrorsRaisedTogether ==
    ValidationDone =>
        /\ result \in {"returned", "InvalidParameterValue"}
        /\ result = "returned" <=> loc.errors = <<>>
        /\ \A i \in 1..Len(loc.user_steps), kind \in PerStepKinds :
              ErrorsFor(i, kind) # {} <=> Faulty(i, kind)
        /\ Len(loc.errors) =
              Cardinality({p \in (1..Len(loc.user_steps)) \X PerStepKinds :
                              Faulty(p[1], p[2])})
              + (IF loc.step_type = "deploy"
                 THEN Cardinality(RepeatedKeys) ELSE 0)
        /\ Len(loc.steps) = Len(loc.user_steps)
        /\ \A i \in 1..Len(loc.user_steps) :
              /\ step_id(loc.steps[i]) = step_id(loc.user_steps[i])
              /\ loc.step_type = "deploy" => loc.steps[i] = loc.user_steps[i]

(* three steps, the first and the last at fault and a repeated pair: all   *)
(* three errors are in the one exception                                   *)
C37_Witness ==
    /\ ValidationDone
    /\ loc.step_type = "deploy"
    /\ result = "InvalidParameterValue"
    /\ Len(loc.user_steps) = 3
    /\ \E k \in PerStepKinds : Faulty(1, k)
    /\ \A k \in PerStepKinds : ~Faulty(2, k)
    /\ \E k \in PerStepKinds : Faulty(3, k)
    /\ RepeatedKeys # {}
    /\ Len(loc.errors) = 3


(***************************************************************************)
(* The boot mode and the supported modes                                   *)
(***************************************************************************)
ModesQueried(l) == Has(l, Ev("get_supported_boot_modes", "management", "ok"))

(* C38: node_set_boot_mode on a node that is not ADOPTING applies the mode *)
(* iff it is among the modes get_supported_boot_modes returned: for an     *)
(* unsupported mode it raises InvalidParameterValue and never calls the    *)
(* driver's set_boot_mode; for a supported mode it calls set_boot_mode     *)
(* exactly once, after validation and after the supported-modes query.     *)
C38_BootModeSetIffSupported ==
    (op = "node_set_boot_mode" /\ node.provision_state # ADOPTING) =>
        /\ \A i \in 1..Len(log) :
              log[i][1] = "set_boot_mode" =>
                  /\ log[i][2] = loc.mode
                  /\ loc.mode \in loc.boot_modes
                  /\ ValidatedOk(SubSeq(log, 1, i - 1))
                  /\ ModesQueried(SubSeq(log, 1, i - 1))
                  /\ \A j \in 1..(i - 1) :
                        log[j][1] = "get_supported_boot_modes" =>
                            ValidatedOk(SubSeq(log, 1, j - 1))
        /\ CountKind(log, "set_boot_mode") <= 1
        /\ (pc = "done" /\ ModesQueried(log)) =>
              IF loc.mode \in loc.boot_modes
              THEN CountKind(log, "set_boot_mode") = 1
              ELSE /\ CountKind(log, "set_boot_mode") = 0
                   /\ result = "InvalidParameterValue"

(* uefi was requested and the driver supports bios only: the call raised   *)
(* after the query and the driver's set_boot_mode was not called           *)
C38_Witness ==
    /\ op = "node_set_boot_mode" /\ pc = "done"
    /\ node.provision_state # ADOPTING
    /\ loc.mode = "uefi" /\ loc.boot_modes = {"bios"}
    /\ result = "InvalidParameterValue"
    /\ log = <<Ev("validate", "management", "ok"),
               Ev("get_supported_boot_modes", "management", "ok")>>


(***************************************************************************)
(* The notifications of one power action                                   *)
(***************************************************************************)
TerminalNotifications == {i \in 1..Len(log) : log[i] \in {NotifyEnd, NotifyError}}

(* the state read, the volume attach or the driver power call raised *)
PowerActionRaised ==
    \/ Raised(log, "get_power_state")
    \/ Raised(log, "attach_volumes")
    \/ \E kind \in PowerCallKinds : Raised(log, kind)

(* C39: every call of node_power_action emits exactly one START            *)
(* notification, as its first observable effect, and then, once the skip   *)
(* check, the attach or the driver call has finished or failed, exactly    *)
(* one terminal notification: END on the skip and success paths, ERROR on  *)
(* the state-read, attach and driver failure paths; no call emits both END *)
(* and ERROR, and none a terminal notification before START.               *)
C39_OneStartOneTerminal ==
    TopPowerAction =>
        /\ log # <<>> => (log[1] = NotifyStart /\ Count(log, NotifyStart) = 1)
        /\ pc \in NpaPcs \ {"npa_enter", "npa_start"} => log # <<>>
        /\ Cardinality(TerminalNotifications) <= 1
        /\ \A i \in TerminalNotifications :
              /\ i > 1
              /\ log[i] = NotifyError <=>
                    PowerActionRaised /\ ~Raised(SubSeq(log, 1, i), "detach_volumes")
              /\ pc \in {"npa_detach", "done"}
        /\ PowerActionOver =>
              /\ Cardinality(TerminalNotifications) = 1
              /\ Has(log, NotifyError) <=> PowerActionRaised
              /\ Has(log, NotifyEnd) <=> ~PowerActionRaised

(* the node was already in the requested state: START, the state read, the *)
(* save and END, and the call returned without a driver power call         *)
C39_Witness ==
    /\ PowerActionOver
    /\ result = "returned"
    /\ Len(log) = 4
    /\ log[1] = NotifyStart
    /\ log[2][1] = "get_power_state"
    /\ log[3] = SaveEv
    /\ log[4] = NotifyEnd

====
